---- MODULE Spec2Model ----
(***************************************************************************)
(* State-machine model of the SIAHL bot's scrapers: the HTTP fetch layer   *)
(* (src/src/services/scraper/base_scraper.py, class BaseScraper) and what  *)
(* is built on it.                                                         *)
(*                                                                         *)
(* A caller is a coroutine that awaits _fetch_html on a scraper instance.  *)
(* asyncio is cooperative: the code between two awaits that really suspend *)
(* (asyncio.sleep, the network I/O of session.get) runs without            *)
(* interruption, so each action of the fetch layer is one such stretch.    *)
(* On top of it stand the async with block of a scraper, the command       *)
(* handlers that create a TeamScraper, and the extractors of the standings *)
(* page (team_scraper.py) and of the schedule page (schedule_scraper.py),  *)
(* which are functions of the page fetched.                                *)
(*                                                                         *)
(* Time is counted in ticks; TicksPerSecond ticks make one second.  The    *)
(* clock itself is not stored: the model keeps the differences the code    *)
(* computes from it (time.time() - _last_request_time) and the remaining   *)
(* time of every pending sleep or request.  Differences saturate at        *)
(* MaxDelay, the largest value any comparison in the code looks at.        *)
(***************************************************************************)
EXTENDS Integers, Sequences, FiniteSets, TLC

\* ------------------------------------------------------------ bounds
\* largest scraper_max_retries explored
MaxRetries == 3
\* largest delay_seconds explored, in ticks
MaxDelay == 3
\* longest time, in ticks, a request that is answered takes
MaxDuration == 2
\* largest scraper_max_retries explored with two concurrent callers
MaxConcRetries == 1

\* ------------------------------------------------------------ time
\* resolution of the clock: scraper_delay_ms = 500 is one tick
TicksPerSecond == 2

Ticks(seconds) == seconds * TicksPerSecond

\* aiohttp.ClientTimeout(total=30)
TimeoutSeconds == 30

\* asyncio.sleep(60) of the RateLimitError handler
CooldownSeconds == 60

\* headers.get("Retry-After", 60)
DefaultRetryAfter == 60

Min(a, b) == IF a < b THEN a ELSE b

\* a time difference after d more ticks
Aged(age, d) == Min(age + d, MaxDelay)

\* ------------------------------------------------------------ int()
Digits == <<"0", "1", "2", "3", "4", "5", "6", "7", "8", "9">>

IsDigit(ch) == \E i \in 1..10 : Digits[i] = ch

DigitVal(ch) == (CHOOSE i \in 1..10 : Digits[i] = ch) - 1

RECURSIVE DigitsValue(_)
DigitsValue(s) ==
    IF s = <<>> THEN 0
    ELSE DigitsValue(SubSeq(s, 1, Len(s) - 1)) * 10 + DigitVal(s[Len(s)])

RECURSIVE LStrip(_)
LStrip(s) == IF s # <<>> /\ s[1] = " " THEN LStrip(Tail(s)) ELSE s

RECURSIVE RStrip(_)
RStrip(s) ==
    IF s # <<>> /\ s[Len(s)] = " " THEN RStrip(SubSeq(s, 1, Len(s) - 1)) ELSE s

\* Python's int(str): surrounding blanks dropped, an optional sign, then
\* decimal digits only; anything else raises ValueError (ok = FALSE).
PyInt(s) ==
    LET t == RStrip(LStrip(s))
        signed == t # <<>> /\ t[1] \in {"+", "-"}
        body == IF signed THEN Tail(t) ELSE t
        sign == IF signed /\ t[1] = "-" THEN -1 ELSE 1
    IN  IF body # <<>> /\ \A i \in 1..Len(body) : IsDigit(body[i])
        THEN [ok |-> TRUE, val |-> sign * DigitsValue(body)]
        ELSE [ok |-> FALSE, val |-> 0]

\* ------------------------------------------------------------ responses
Callers == {1, 2}

NoHeader == [present |-> FALSE, text |-> <<>>]

Header(s) == [present |-> TRUE, text |-> s]

\* Retry-After as a server may send it: absent, delta-seconds, an HTTP date
RetryAfterHeaders ==
    {NoHeader, Header(<<"5">>), Header(<<"W", "e", "d", ",", " ", "2", "1">>)}

\* What one session.get can end in.  fault "conn" is any aiohttp.ClientError
\* raised by the transport (connection refused, reset, payload error);
\* fault "timeout" is the total timeout of the session expiring.  304 stands
\* for the statuses below 400 that aiohttp hands over without following.
Responses ==
    {[fault |-> "conn", status |-> 0, retry_after |-> NoHeader],
     [fault |-> "timeout", status |-> 0, retry_after |-> NoHeader]}
    \cup {[fault |-> "none", status |-> s, retry_after |-> NoHeader] :
            s \in {200, 304, 404, 500}}
    \cup {[fault |-> "none", status |-> 429, retry_after |-> h] :
            h \in RetryAfterHeaders}

\* The answers explored with two callers: success and transport failure.
ConcResponses == {rsp \in Responses : rsp.fault = "conn" \/ rsp.status = 200}

\* The answers explored with two instances: also a 429, for the cool-down.
TwoResponses ==
    ConcResponses \cup
        {rsp \in Responses : rsp.status = 429 /\ ~rsp.retry_after.present}

\* the site answers with the page
PlainResponses == {rsp \in Responses : rsp.status = 200}

\* What an attempt met, as the site and the network produced it.
Met(rsp) ==
    IF rsp.fault # "none" THEN rsp.fault
    ELSE IF rsp.status = 429 THEN "429"
    ELSE IF rsp.status \in 200..299 THEN "ok"
    ELSE IF rsp.status >= 400 THEN "error"
    ELSE "3xx"

\* int(response.headers.get("Retry-After", 60))
RetryAfter(rsp) ==
    IF rsp.retry_after.present
    THEN PyInt(rsp.retry_after.text)
    ELSE [ok |-> TRUE, val |-> DefaultRetryAfter]

\* ------------------------------------------------------------ _fetch_html
RaisesForServerErrors(status) == status >= 500

\* response.raise_for_status(): aiohttp raises ClientResponseError, a
\* ClientError, when the status is 400 or above
RaisesForStatus(status) == status >= 400

\* an attempt whose 429 always counts as a rate limit, readable header or not
OutcomeAnyRetryAfter(rsp) ==
    IF rsp.fault = "conn" THEN "ClientError"
    ELSE IF rsp.fault = "timeout" THEN "TimeoutError"
    ELSE IF rsp.status = 429 THEN "RateLimitError"
    ELSE IF RaisesForStatus(rsp.status) THEN "ClientError"
    ELSE "html"

\* How the try block of one attempt ends: "html" (the body is returned) or
\* the class of the exception it raises.  The session's total timeout
\* surfaces as asyncio.TimeoutError, which is no aiohttp.ClientError.
Outcome(rsp) ==
    IF rsp.fault = "conn" THEN "ClientError"
    ELSE IF rsp.fault = "timeout" THEN "TimeoutError"
    ELSE IF rsp.status = 429
         THEN IF RetryAfter(rsp).ok THEN "RateLimitError" ELSE "ValueError"
    ELSE IF RaisesForStatus(rsp.status) THEN "ClientError"
    ELSE "html"

CanRetryInclusive(r, ceiling) == r <= ceiling

\* if retries < self.max_retries
CanRetry(r, ceiling) == r < ceiling

BackoffFromTwo(r) == 2 ^ (r + 1)

\* backoff_time = 2 ** retries, in seconds
BackoffTime(r) == 2 ^ r

\* await asyncio.sleep(60): the parsed Retry-After is only put in the message
CooldownTime(retry_after) == CooldownSeconds

\* class RateLimitError(ScraperError)
IsScraperError(kind) == kind \in {"ScraperError", "RateLimitError"}

NoRateLimitSleep(elapsed, delay) == 0

ShortRateLimitSleep(elapsed, delay) == IF elapsed < delay THEN delay - elapsed - 1 ELSE 0

\* sleep_time of _rate_limit, 0 when it does not sleep
RateLimitSleep(elapsed, delay) == IF elapsed < delay THEN delay - elapsed ELSE 0

NotStamped(elapsed) == elapsed

\* self._last_request_time = time.time(): the difference to now becomes 0
Stamped(elapsed) == 0

AlwaysNeedsSession(s) == TRUE

\* if self._session is None or self._session.closed: close() forgets the
\* session it closes, so a session the instance still holds is open
NeedsSession(s) == s = "None"

\* _ensure_session: a session exists afterwards
EnsureSession(s) == IF NeedsSession(s) THEN "open" ELSE s

\* the year the bot runs in
ThisYear == 2025

\* the scraper objects alive at one time
Instances == {"A", "B"}

ClassAttributes(inst) == "A"

\* __init__ binds _session and _last_request_time to self: an instance
\* reads and writes the fields of itself
Self(inst) == inst

NotClosed(s) == s

\* close(): an open session is closed and forgotten
Closed(s) == IF s = "open" THEN "None" ELSE s

VARIABLES
    callers,                  \* the coroutines that use a scraper
    uses,                     \* the instance each of them uses
    served,                   \* what the site may answer a request of each caller with
    latencies,                \* how long, in ticks, an answer may take
    max_retries,              \* self.max_retries
    delay_seconds,            \* self.delay_seconds, in ticks
    max_sessions,             \* how many sessions of an instance are counted
    session,                  \* self._session of each instance: "None" or "open"
    live,                     \* sessions each instance created and has not closed
    opened,                   \* sessions each instance has created
    time_since_last_request,  \* time.time() - self._last_request_time of each
    pc,                       \* where each caller is suspended
    retries,                  \* the retries argument of the running frame
    timer,                    \* ticks until the awaited sleep or response is due
    response,                 \* what the last request sent ends or ended in
    attempts,                 \* requests dispatched by the running call
    outcomes,                 \* what the attempts of the running call met, in order
    waits,                    \* its backoff and cool-down sleeps, in order
    result,                   \* how the last call of each caller ended
    since_dispatch,           \* ticks since each instance last dispatched
    since_complete,           \* ticks since a request of it last completed
    own_since,                \* ticks since each caller last dispatched
    rate_slept,               \* ticks the running attempt slept in _rate_limit
    spaced,                   \* every dispatch came delay_seconds after the one before
    spaced_complete,          \* ... and delay_seconds after the last completion
    spaced_own,               \* ... and delay_seconds after its caller's last one
    scope,                    \* where each caller is relative to an async with block
    handler,                  \* the handler or extractor each caller runs, and its position
    state,                    \* the FSM state of the user: the onboarding step
    data,                     \* the FSM data of the user
    answers,                  \* what the running handler has sent to the user, in order
    db,                       \* the rows of the tables the handlers write
    callbacks,                \* the button presses handled so far, with their answers
    html,                     \* the page a fetch returned, as BeautifulSoup sees it
    current_year,             \* datetime.now().year
    teams,                    \* what get_all_teams returns
    games,                    \* what get_team_schedule returns
    returned                  \* the extractor has returned

config == <<callers, uses, served, latencies, max_retries, delay_seconds,
           max_sessions>>

logs == <<attempts, outcomes, waits, result>>

ages == <<time_since_last_request, since_dispatch, since_complete, own_since>>

gaps == <<rate_slept, spaced, spaced_complete, spaced_own>>

client == <<scope, handler>>

sessions == <<session, live, opened>>

bot == <<state, data, answers, db, callbacks>>

pages == <<html, current_year, teams, games, returned>>

fetching == <<config, bot, sessions, pc, retries, timer, response, logs, ages, gaps, client>>

vars == <<fetching, pages>>

\* the instance whose fields the code run by caller c reads and writes
Of(c) == Self(uses[c])

NoHandler == [name |-> "none", at |-> "none", scraper |-> "none", text |-> <<>>,
              calls |-> 0]

\* state.clear(): no state, no data
NoState == "None"

NoData == [player_name |-> <<>>, teams |-> <<>>, selected_teams |-> <<>>]

\* the tables teams, player_profiles, player_teams and user_preferences
\* without rows
NoRows ==
    [teams |-> {}, player_profiles |-> <<>>, player_teams |-> <<>>,
     user_preferences |-> 0]

\* the user is in no conversation and nothing is stored
NoChat ==
    /\ state = NoState
    /\ data = NoData
    /\ answers = <<>>
    /\ db = NoRows
    /\ callbacks = <<>>

\* a counter of sessions, one more: it stops at max_sessions
Counted(n) == Min(n + 1, max_sessions)

\* await self._ensure_session() on instance i
EnsureSessionOf(i) ==
    /\ session' = [session EXCEPT ![i] = EnsureSession(@)]
    /\ live' = [live EXCEPT ![i] =
                IF NeedsSession(session[i]) THEN Counted(@) ELSE @]
    /\ opened' = [opened EXCEPT ![i] =
                IF NeedsSession(session[i]) THEN Counted(@) ELSE @]

\* await self.close() on instance i
CloseOf(i) ==
    /\ session' = [session EXCEPT ![i] = Closed(@)]
    /\ live' = [live EXCEPT ![i] =
                IF Closed(session[i]) # session[i] /\ @ > 0 THEN @ - 1 ELSE @]
    /\ UNCHANGED opened

NoResponse == [fault |-> "none", status |-> 0, retry_after |-> NoHeader]

NoResult == [kind |-> "none", attempt |-> 0]

\* BaseScraper.__init__ and the settings it copies
InitInstance ==
    /\ session = [i \in Instances |-> "None"]
    /\ live = [i \in Instances |-> 0]
    /\ opened = [i \in Instances |-> 0]
    /\ time_since_last_request = [i \in Instances |-> MaxDelay]
    /\ pc = [c \in Callers |-> "idle"]
    /\ retries = [c \in Callers |-> 0]
    /\ timer = [c \in Callers |-> 0]
    /\ response = [c \in Callers |-> NoResponse]
    /\ attempts = [c \in Callers |-> 0]
    /\ outcomes = [c \in Callers |-> <<>>]
    /\ waits = [c \in Callers |-> <<>>]
    /\ result = [c \in Callers |-> NoResult]
    /\ since_dispatch = [i \in Instances |-> MaxDelay]
    /\ since_complete = [i \in Instances |-> MaxDelay]
    /\ own_since = [c \in Callers |-> MaxDelay]
    /\ rate_slept = [c \in Callers |-> 0]
    /\ spaced = TRUE
    /\ spaced_complete = TRUE
    /\ spaced_own = TRUE
    /\ scope = [c \in Callers |-> "none"]
    /\ handler = [c \in Callers |-> NoHandler]

\* no page is looked at
NoPage ==
    /\ html = <<>>
    /\ current_year = ThisYear
    /\ teams = <<>>
    /\ games = <<>>
    /\ returned = FALSE

\* one caller at a time, as every handler of the bot uses its scraper
Init ==
    /\ callers = {1}
    /\ uses = [c \in Callers |-> "A"]
    /\ served = [c \in Callers |-> Responses]
    /\ latencies = 0..MaxDuration
    /\ max_retries \in 0..MaxRetries
    /\ delay_seconds \in 1..MaxDelay
    /\ max_sessions = 0
    /\ InitInstance
    /\ NoChat
    /\ NoPage

\* Two coroutines awaiting _fetch_html on one instance.  The site answers
\* with success or a transport failure, at once or after MaxDuration.
InitConc ==
    /\ callers = Callers
    /\ uses = [c \in Callers |-> "A"]
    /\ served = [c \in Callers |-> ConcResponses]
    /\ latencies = {0, MaxDuration}
    /\ max_retries \in {0, MaxConcRetries}
    /\ delay_seconds \in {1, MaxDelay}
    /\ max_sessions = 0
    /\ InitInstance
    /\ NoChat
    /\ NoPage

\* Lines 99 (after the sleep) to 108: stamp the time and send the request;
\* n requests of the running call went out before.
Dispatch(c, n) ==
    /\ time_since_last_request' = [time_since_last_request EXCEPT
                ![Of(c)] = Stamped(@)]
    /\ \E rsp \in served[c], d \in latencies :
        /\ response' = [response EXCEPT ![c] = rsp]
        /\ timer' = [timer EXCEPT ![c] =
                IF rsp.fault = "timeout" THEN Ticks(TimeoutSeconds) ELSE d]
    /\ pc' = [pc EXCEPT ![c] = "inflight"]
    /\ attempts' = [attempts EXCEPT ![c] = n + 1]
    /\ spaced' = (spaced /\ since_dispatch[uses[c]] >= delay_seconds)
    /\ spaced_complete' =
            (spaced_complete /\ since_complete[uses[c]] >= delay_seconds)
    /\ spaced_own' = (spaced_own /\ own_since[c] >= delay_seconds)
    /\ since_dispatch' = [since_dispatch EXCEPT ![uses[c]] = 0]
    /\ own_since' = [own_since EXCEPT ![c] = 0]
    /\ UNCHANGED since_complete

\* Lines 98-99: _ensure_session, then _rate_limit up to its sleep; when it
\* needs no sleep the request goes out in the same stretch.
Enter(c, r, n) ==
    /\ EnsureSessionOf(Of(c))
    /\ retries' = [retries EXCEPT ![c] = r]
    /\ LET sleep_time == RateLimitSleep(time_since_last_request[Of(c)],
                                        delay_seconds)
       IN  IF sleep_time > 0
           THEN /\ pc' = [pc EXCEPT ![c] = "rate_sleep"]
                /\ timer' = [timer EXCEPT ![c] = sleep_time]
                /\ attempts' = [attempts EXCEPT ![c] = n]
                /\ rate_slept' = [rate_slept EXCEPT ![c] = sleep_time]
                /\ response' = [response EXCEPT ![c] = NoResponse]
                /\ UNCHANGED <<ages, spaced, spaced_complete, spaced_own>>
           ELSE Dispatch(c, n) /\ rate_slept' = [rate_slept EXCEPT ![c] = 0]

\* _fetch_html(url) is awaited with retries = 0.
Call(c) ==
    /\ c \in callers
    /\ pc[c] = "idle"
    /\ outcomes' = [outcomes EXCEPT ![c] = <<>>]
    /\ waits' = [waits EXCEPT ![c] = <<>>]
    /\ result' = [result EXCEPT ![c] = NoResult]
    /\ Enter(c, 0, 0)
    /\ UNCHANGED <<config, bot, pages>>

\* the last call of c ended in an exception
Raised(c) == result[c].kind \notin {"none", "html"}

\* A caller that runs no handler awaits _fetch_html; inside an async with
\* block only while no exception is on its way out of the block.
FetchHtml(c) ==
    /\ handler[c] = NoHandler
    /\ scope[c] = "inside" => ~Raised(c)
    /\ Call(c)
    /\ scope' = [scope EXCEPT ![c] = IF @ = "left" THEN "none" ELSE @]
    /\ UNCHANGED handler

\* Lines 74-76 and on: the rate-limit sleep is over.
RateWake(c) ==
    /\ pc[c] = "rate_sleep"
    /\ timer[c] = 0
    /\ Dispatch(c, attempts[c])
    /\ UNCHANGED <<config, bot, pages, sessions, retries, outcomes, waits, result, rate_slept>>
    /\ UNCHANGED client

\* The caller's call ends: it returns the body or raises.
Finish(c, kind) ==
    /\ pc' = [pc EXCEPT ![c] = "idle"]
    /\ result' = [result EXCEPT ![c] = [kind |-> kind, attempt |-> attempts[c]]]
    /\ UNCHANGED <<timer, waits>>

\* await asyncio.sleep(seconds) in an except clause
Sleep(c, kind, seconds) ==
    /\ pc' = [pc EXCEPT ![c] = kind]
    /\ timer' = [timer EXCEPT ![c] = Ticks(seconds)]
    /\ waits' = [waits EXCEPT ![c] = Append(@, [kind |-> kind, seconds |-> seconds])]
    /\ UNCHANGED result

\* Lines 108-140: the request in flight ends and the attempt is handled.
Respond(c) ==
    /\ pc[c] = "inflight"
    /\ timer[c] = 0
    /\ outcomes' = [outcomes EXCEPT ![c] = Append(@, Met(response[c]))]
    /\ since_complete' = [since_complete EXCEPT ![uses[c]] = 0]
    /\ LET how == Outcome(response[c])
           more == CanRetry(retries[c], max_retries)
       IN  CASE how = "html" -> Finish(c, "html")
             [] how = "ClientError" /\ more ->
                    Sleep(c, "backoff", BackoffTime(retries[c]))
             [] how = "ClientError" /\ ~more -> Finish(c, "ScraperError")
             [] how = "RateLimitError" /\ more ->
                    Sleep(c, "cooldown", CooldownTime(RetryAfter(response[c]).val))
             [] how = "RateLimitError" /\ ~more -> Finish(c, "RateLimitError")
             [] OTHER -> Finish(c, how)
    /\ UNCHANGED <<config, bot, pages, sessions, retries, response, attempts, gaps, client>>
    /\ UNCHANGED <<time_since_last_request, since_dispatch, own_since>>

\* Lines 129 and 138: the sleep is over, _fetch_html(url, retries + 1, params)
Retry(c) ==
    /\ pc[c] \in {"backoff", "cooldown"}
    /\ timer[c] = 0
    /\ Enter(c, retries[c] + 1, attempts[c])
    /\ UNCHANGED <<config, bot, pages, outcomes, waits, result, client>>

\* nobody is inside a fetch of the instance c uses
Quiet(c) == \A k \in callers : uses[k] = uses[c] => pc[k] = "idle"

\* close(): with a session open, close and forget it; else nothing.  The
\* callers of this repository close a scraper only between fetches.
Close(c) ==
    /\ c \in callers
    /\ handler[c] = NoHandler
    /\ Quiet(c)
    /\ CloseOf(Of(c))
    /\ UNCHANGED <<config, bot, pages, pc, retries, timer, response, logs, ages, gaps, client>>

\* async with scraper: __aenter__ awaits _ensure_session
AEnter(c) ==
    /\ c \in callers
    /\ handler[c] = NoHandler
    /\ pc[c] = "idle"
    /\ scope[c] # "inside"
    /\ EnsureSessionOf(Of(c))
    /\ scope' = [scope EXCEPT ![c] = "inside"]
    /\ result' = [result EXCEPT ![c] = NoResult]
    /\ UNCHANGED <<config, bot, pages, pc, retries, timer, response, ages, gaps, handler>>
    /\ UNCHANGED <<attempts, outcomes, waits>>

\* The block is left, by falling off its end or by an exception of a fetch
\* that propagates out of it: __aexit__ awaits close().
AExit(c) ==
    /\ scope[c] = "inside"
    /\ pc[c] = "idle"
    /\ Quiet(c)
    /\ CloseOf(Of(c))
    /\ scope' = [scope EXCEPT ![c] = "left"]
    /\ UNCHANGED <<config, bot, pages, pc, retries, timer, response, logs, ages, gaps, handler>>

\* ------------------------------------------------------------ time
Pending == {c \in callers : pc[c] # "idle" /\ timer[c] > 0}

NextDue == CHOOSE m \in {timer[c] : c \in Pending} : \A c \in Pending : m <= timer[c]

Settled ==
    \A i \in Instances :
        /\ time_since_last_request[i] = MaxDelay
        /\ since_dispatch[i] = MaxDelay
        /\ since_complete[i] = MaxDelay

\* Time passes up to the next sleep or response that falls due.  Shorter
\* steps are taken while a time difference is still below MaxDelay, so that
\* another caller can arrive inside somebody's wait; with nothing pending a
\* due coroutine may also be resumed late.
Steps ==
    IF Pending = {} THEN {1}
    ELSE {NextDue} \cup {d \in 1..MaxDelay : d <= NextDue /\ ~Settled}

Advance ==
    /\ \E d \in Steps :
        /\ timer' = [c \in Callers |-> IF timer[c] > d THEN timer[c] - d ELSE 0]
        /\ time_since_last_request' =
                [i \in Instances |-> Aged(time_since_last_request[i], d)]
        /\ since_dispatch' = [i \in Instances |-> Aged(since_dispatch[i], d)]
        /\ since_complete' = [i \in Instances |-> Aged(since_complete[i], d)]
        /\ own_since' = [c \in Callers |-> Aged(own_since[c], d)]
    /\ UNCHANGED <<config, bot, pages, sessions, pc, retries, response, logs, gaps, client>>

Next ==
    \/ \E c \in Callers : FetchHtml(c)
    \/ \E c \in Callers : RateWake(c)
    \/ \E c \in Callers : Respond(c)
    \/ \E c \in Callers : Retry(c)
    \/ \E c \in Callers : Close(c)
    \/ Advance

Spec == Init /\ [][Next]_vars

SpecConc == InitConc /\ [][Next]_vars

\* ------------------------------------------------------------ two instances
\* Two scrapers alive at once, each used by one coroutine.  The requests
\* of the first meet success, transport failures and 429; those of the
\* second are answered with success.  One retry is allowed.
InitTwo ==
    /\ callers = Callers
    /\ uses = [c \in Callers |-> IF c = 1 THEN "A" ELSE "B"]
    /\ served = [c \in Callers |-> IF c = 1 THEN TwoResponses ELSE PlainResponses]
    /\ latencies = {0, MaxDuration}
    /\ max_retries = 1
    /\ delay_seconds \in {1, MaxDelay}
    /\ max_sessions = 0
    /\ InitInstance
    /\ NoChat
    /\ NoPage

SpecTwo == InitTwo /\ [][Next]_vars

\* ------------------------------------------------------------ async with
\* One coroutine that uses its scraper in async with blocks and outside them.
InitScope ==
    /\ callers = {1}
    /\ uses = [c \in Callers |-> "A"]
    /\ served = [c \in Callers |-> Responses]
    /\ latencies = {0, MaxDuration}
    /\ max_retries \in {0, MaxConcRetries}
    /\ delay_seconds \in {1, MaxDelay}
    /\ max_sessions = 0
    /\ InitInstance
    /\ NoChat
    /\ NoPage

NextScope ==
    \/ \E c \in Callers : AEnter(c)
    \/ \E c \in Callers : AExit(c)
    \/ \E c \in Callers : FetchHtml(c)
    \/ \E c \in Callers : RateWake(c)
    \/ \E c \in Callers : Respond(c)
    \/ \E c \in Callers : Retry(c)
    \/ \E c \in Callers : Close(c)
    \/ Advance

SpecScope == InitScope /\ [][NextScope]_vars

\* how many of the sessions an instance creates are counted
MaxSessions == 2

\* one coroutine and its instance, whose sessions are counted
InitSession ==
    /\ callers = {1}
    /\ uses = [c \in Callers |-> "A"]
    /\ served = [c \in Callers |-> ConcResponses]
    /\ latencies = {0}
    /\ max_retries \in {0, MaxConcRetries}
    /\ delay_seconds \in {1, MaxDelay}
    /\ max_sessions = MaxSessions
    /\ InitInstance
    /\ NoChat
    /\ NoPage

SpecSession == InitSession /\ [][NextScope]_vars

\* ------------------------------------------------------------ standings page
\* A text is the tuple of its characters, a heading the tuple of its words.
\* A cell is a td element: its text and the anchors inside it.  An href is
\* given by whether it has a "?" and by the key=value pairs after it.
None == [some |-> FALSE, val |-> 0]

Some(v) == [some |-> TRUE, val |-> v]

\* get_text(strip=True)
Strip(text) == RStrip(LStrip(text))

\* parse_qs(query_string)[key], [] when the key is missing: the values of
\* the pairs with that key in order, blank values dropped
ParseQs(params, key) ==
    LET Wanted(p) == p.key = key /\ p.value # <<>>
        found == SelectSeq(params, Wanted)
    IN  [i \in 1..Len(found) |-> found[i].value]

\* _extract_team_id
ExtractTeamId(href) ==
    IF ~href.has_query THEN None
    ELSE LET team_id_list == ParseQs(href.params, "team")
         IN  IF team_id_list = <<>> THEN None
             ELSE IF PyInt(team_id_list[1]).ok
                  THEN Some(PyInt(team_id_list[1]).val)
                  ELSE None

SafeIntMinusOne(value) == IF PyInt(value).ok THEN PyInt(value).val ELSE -1

\* TeamScraper._safe_int
SafeInt(value) == IF PyInt(value).ok THEN PyInt(value).val ELSE 0

\* settings.default_league_id
LeagueId == 1

\* settings.current_season
Season == 72

\* the least number of td cells of a standings row
MinStandingsCells == 8

TooFewBelowSeven(cells) == Len(cells) < MinStandingsCells - 1

\* if len(cells) < 8: continue
TooFewCells(cells) == Len(cells) < MinStandingsCells

\* for _ in range(10), over the previous siblings of the table
SiblingLimit == 10

\* for _ in range(5), over the previous siblings of its parent
ParentSiblingLimit == 5

\* text and "Division" in text, to the word
HasDivision(text) == \E i \in 1..Len(text) : text[i] = "Division"

\* a search that walks the previous siblings to the first of them
RECURSIVE ScanAllSiblings(_, _, _)
ScanAllSiblings(siblings, k, limit) ==
    IF k > Len(siblings) THEN None
    ELSE IF HasDivision(siblings[k]) THEN Some(siblings[k])
    ELSE ScanAllSiblings(siblings, k + 1, limit)

\* one of the two loops of _find_division_name, from sibling k on
RECURSIVE ScanSiblings(_, _, _)
ScanSiblings(siblings, k, limit) ==
    IF k > Len(siblings) \/ k > limit THEN None
    ELSE IF HasDivision(siblings[k]) THEN Some(siblings[k])
    ELSE ScanSiblings(siblings, k + 1, limit)

AnyHeading(table) == Some(<<"Division">>)

\* _find_division_name: prev and parent_prev are the texts of the previous
\* siblings of the table and of its parent, the nearest first
FindDivisionName(table) ==
    LET own == ScanSiblings(table.prev, 1, SiblingLimit)
    IN  IF own.some THEN own
        ELSE ScanSiblings(table.parent_prev, 1, ParentSiblingLimit)

\* table.find_all("tr"): the rows of the table and of a table nested in
\* the first cell of its first row, in document order
RECURSIVE FindAllTr(_)
FindAllTr(table) ==
    IF table.inner = <<>> THEN table.rows
    ELSE <<table.rows[1]>> \o FindAllTr(table.inner[1]) \o Tail(table.rows)

\* soup.find_all("table"): every table, a nested one after the one around it
RECURSIVE FindAllTables(_)
FindAllTables(tables) ==
    IF tables = <<>> THEN <<>>
    ELSE <<tables[1]>> \o FindAllTables(tables[1].inner)
                       \o FindAllTables(Tail(tables))

\* Lines 174-213: one row.  team_id is never None in a record; it is kept
\* in the shape _extract_team_id returns.  from_table and from_row are no
\* keys of the dictionary: they name the table and the row the record was
\* made from.
TeamOfRow(cells, division, t, i) ==
    IF TooFewCells(cells) THEN <<>>
    ELSE IF cells[1].a = <<>> THEN <<>>
    ELSE LET team_link == cells[1].a[1]
             team_id == ExtractTeamId(team_link.href)
         IN  IF ~team_id.some \/ team_id.val = 0 THEN <<>>
             ELSE <<[team_id |-> team_id,
                     name |-> Strip(team_link.text),
                     division |-> division,
                     games_played |-> SafeInt(Strip(cells[2].text)),
                     wins |-> SafeInt(Strip(cells[3].text)),
                     losses |-> SafeInt(Strip(cells[4].text)),
                     ties |-> SafeInt(Strip(cells[5].text)),
                     overtime_losses |-> SafeInt(Strip(cells[6].text)),
                     points |-> SafeInt(Strip(cells[7].text)),
                     streak |-> IF Len(cells) > 7
                                THEN Some(Strip(cells[8].text)) ELSE None,
                     tie_breaker |-> IF Len(cells) > 8
                                     THEN Some(Strip(cells[9].text)) ELSE None,
                     league_id |-> LeagueId,
                     season |-> Season,
                     from_table |-> t,
                     from_row |-> i]>>

RECURSIVE TeamsOfRows(_, _, _, _)
TeamsOfRows(rows, i, division, t) ==
    IF i > Len(rows) THEN <<>>
    ELSE TeamOfRow(rows[i], division, t, i)
            \o TeamsOfRows(rows, i + 1, division, t)

\* _parse_standings_table: for row in rows[1:]
ParseStandingsTable(table, division, t) ==
    LET rows == FindAllTr(table)
    IN  IF rows = <<>> THEN <<>> ELSE TeamsOfRows(rows, 2, division, t)

\* Lines 77-92: for table in tables
RECURSIVE TeamsOfTables(_, _)
TeamsOfTables(tables, t) ==
    IF t > Len(tables) THEN <<>>
    ELSE LET division == FindDivisionName(tables[t])
         IN  (IF division.some
              THEN ParseStandingsTable(tables[t], division.val, t)
              ELSE <<>>) \o TeamsOfTables(tables, t + 1)

\* get_all_teams from line 69 on, the page fetched: no statement outside
\* the per-row try raises, so it returns
ParseTeams ==
    /\ ~returned
    /\ teams' = TeamsOfTables(FindAllTables(html), 1)
    /\ returned' = TRUE
    /\ UNCHANGED <<fetching, html, current_year, games>>

NextTeams == ParseTeams

\* ------------------------------------------------------------ standings input
\* most rows of one standings table
MaxRows == 3
\* most data rows of a table of a page with several tables
MaxPageRows == 1
\* most top-level tables of a page
MaxTables == 2

SeqsUpTo(S, n) == UNION {[1..k -> S] : k \in 0..n}

Cell(text) == [text |-> text, a |-> <<>>]

LinkCell(name, href) == [text |-> name, a |-> <<[text |-> name, href |-> href]>>]

Pair(k, v) == [key |-> k, value |-> v]

\* display-schedule?team=...&season=72
TeamHref(v) == [has_query |-> TRUE,
                params |-> <<Pair("team", v), Pair("season", <<"7", "2">>)>>]

\* hrefs that give no team id: no "?", no team parameter, team= left
\* blank, a team that is no integer, team 0
BadHrefs ==
    {[has_query |-> FALSE, params |-> <<>>],
     [has_query |-> TRUE, params |-> <<Pair("season", <<"7", "2">>)>>],
     TeamHref(<<>>), TeamHref(<<"a", "b">>), TeamHref(<<"0">>)}

\* a row of th cells
HeaderRow == <<>>

\* the first n cells of: team, GP, W, L, T, OTL, PTS, streak, tie breaker
StandingsRow(first, gp, pts, n) ==
    SubSeq(<<first, Cell(gp), Cell(<<"3">>), Cell(<<"2">>), Cell(<<"0">>),
             Cell(<<"0">>), Cell(pts), Cell(<<"W", "2">>), Cell(<<"1">>)>>, 1, n)

TeamA(id) == LinkCell(<<"TeamA">>, TeamHref(id))

GoodRow(id) == StandingsRow(TeamA(id), <<"5">>, <<"6">>, MinStandingsCells)

GoodRows == {GoodRow(<<"7">>), GoodRow(<<"8">>)}

\* rows whose first-cell anchor gives no team id, or that have no anchor
UnidentifiedRows ==
    {StandingsRow(LinkCell(<<"TeamA">>, h), <<"5">>, <<"6">>, MinStandingsCells) :
        h \in BadHrefs}
    \cup {StandingsRow(Cell(<<"TeamA">>), <<"5">>, <<"6">>, MinStandingsCells)}

\* rows with a counter cell that is empty, padded or no integer
LenientRows ==
    {StandingsRow(TeamA(<<"7">>), gp, <<"6">>, MinStandingsCells) :
        gp \in {<<>>, <<"x">>, <<" ", "5">>}}
    \cup {StandingsRow(TeamA(<<"7">>), <<"5">>, <<"1", ".", "5">>, MinStandingsCells)}

\* rows with one cell less and one cell more than the least
OtherWidthRows ==
    {StandingsRow(TeamA(<<"7">>), <<"5">>, <<"6">>, n) :
        n \in {MinStandingsCells - 1, MinStandingsCells + 1}}

RowKinds == GoodRows \cup UnidentifiedRows \cup LenientRows \cup OtherWidthRows

Heading(words) == <<words>>

Division1 == <<"Division", "1">>

Headings == {Division1, <<"Standings">>}

Table(heading, rows) ==
    [prev |-> Heading(heading), parent_prev |-> <<>>,
     rows |-> <<HeaderRow>> \o rows, inner |-> <<>>]

\* a layout table: one row of one cell, with a table in it
Around(heading, table) ==
    [prev |-> Heading(heading), parent_prev |-> <<>>,
     rows |-> <<<<Cell(<<>>)>>>>, inner |-> <<table>>]

PlainTables == {Table(h, rows) : h \in Headings, rows \in SeqsUpTo(GoodRows, MaxPageRows)}

PageTables == PlainTables \cup {Around(h, t) : h \in Headings, t \in PlainTables}

\* the fetch layer at rest: what follows starts from the page it returned
InitParsing ==
    /\ callers = {1}
    /\ uses = [c \in Callers |-> "A"]
    /\ served = [c \in Callers |-> PlainResponses]
    /\ latencies = {0}
    /\ max_retries = 0
    /\ delay_seconds = 1
    /\ max_sessions = 0
    /\ InitInstance
    /\ NoChat
    /\ current_year = ThisYear
    /\ teams = <<>>
    /\ games = <<>>
    /\ returned = FALSE

\* one standings table under a division heading, rows of every kind
InitStandingsRows ==
    /\ InitParsing
    /\ html \in {<<Table(Division1, rows)>> : rows \in SeqsUpTo(RowKinds, MaxRows)}

SpecStandingsRows == InitStandingsRows /\ [][NextTeams]_vars

\* a page of tables with and without division heading, plain and nested
InitStandings ==
    /\ InitParsing
    /\ html \in SeqsUpTo(PageTables, MaxTables)

SpecStandings == InitStandings /\ [][NextTeams]_vars

\* most nodes before a table that is searched for its division
MaxSiblings == 11
\* most nodes before the parent of such a table
MaxParentSiblings == 6

\* the text of the node at place j before the table ("own") or before its
\* parent ("parent") when it names a division: no two of them are equal
Label(kind, j) == <<"Division", kind>> \o [k \in 1..j |-> "I"]

\* n nodes, the nearest first: those at the places in D name a division,
\* the others are blank text or other elements
Siblings(kind, n, D) ==
    [j \in 1..n |-> IF j \in D THEN Label(kind, j) ELSE <<"text">>]

\* up to max nodes of which none, one or two name a division
SiblingSeqs(kind, max) ==
    {Siblings(kind, n, D) :
        n \in 0..max,
        D \in {E \in SUBSET (1..max) : Cardinality(E) <= 2}}

\* one standings table of one row, behind the nodes given
InitDivision ==
    /\ InitParsing
    /\ html \in {<<[Table(<<>>, <<GoodRow(<<"7">>)>>) EXCEPT
                        !.prev = prev, !.parent_prev = parent_prev]>> :
                    prev \in SiblingSeqs("own", MaxSiblings),
                    parent_prev \in SiblingSeqs("parent", MaxParentSiblings)}

SpecDivision == InitDivision /\ [][NextTeams]_vars

\* ------------------------------------------------------------ schedule page
\* the least number of td cells of a schedule row
MinScheduleCells == 12

\* ScheduleScraper._safe_int
SafeIntOrNone(value) == IF PyInt(value).ok THEN Some(PyInt(value).val) ELSE None

\* self._safe_int(goals_str) if goals_str else None
Goals(goals_str) == IF goals_str # <<>> THEN SafeIntOrNone(goals_str) ELSE None

StatusByTruth(away_goals, home_goals) ==
    IF away_goals.some /\ away_goals.val # 0 /\ home_goals.some /\ home_goals.val # 0
    THEN "completed" ELSE "scheduled"

\* "completed" if away_goals is not None and home_goals is not None
Status(away_goals, home_goals) ==
    IF away_goals.some /\ home_goals.some THEN "completed" ELSE "scheduled"

\* the runs of characters between blanks
RECURSIVE Words(_)
Words(text) ==
    LET t == LStrip(text)
        blanks == {j \in 1..Len(t) : t[j] = " "}
        end == IF blanks = {} THEN Len(t)
               ELSE (CHOOSE j \in blanks : \A m \in blanks : j <= m) - 1
    IN  IF t = <<>> THEN <<>>
        ELSE <<SubSeq(t, 1, end)>> \o Words(SubSeq(t, end + 1, Len(t)))

\* one or two decimal digits
IsNumber(word) == Len(word) \in {1, 2} /\ \A j \in 1..Len(word) : IsDigit(word[j])

\* %a and %b, as the C locale abbreviates them
Weekdays == {<<"M", "o", "n">>, <<"T", "u", "e">>, <<"W", "e", "d">>,
             <<"T", "h", "u">>, <<"F", "r", "i">>, <<"S", "a", "t">>,
             <<"S", "u", "n">>}

Months == <<<<"J", "a", "n">>, <<"F", "e", "b">>, <<"M", "a", "r">>,
            <<"A", "p", "r">>, <<"M", "a", "y">>, <<"J", "u", "n">>,
            <<"J", "u", "l">>, <<"A", "u", "g">>, <<"S", "e", "p">>,
            <<"O", "c", "t">>, <<"N", "o", "v">>, <<"D", "e", "c">>>>

IsLeap(year) == year % 4 = 0 /\ (year % 100 # 0 \/ year % 400 = 0)

DaysIn(month, year) ==
    IF month = 2 THEN (IF IsLeap(year) THEN 29 ELSE 28)
    ELSE IF month \in {4, 6, 9, 11} THEN 30 ELSE 31

\* %02d
TwoDigits(n) == <<Digits[(n \div 10) + 1], Digits[(n % 10) + 1]>>

\* %Y of a year of four digits
FourDigits(n) == TwoDigits(n \div 100) \o TwoDigits(n % 100)

\* strftime("%Y-%m-%d")
IsoDate(year, month, day) ==
    FourDigits(year) \o <<"-">> \o TwoDigits(month) \o <<"-">> \o TwoDigits(day)

\* strftime("%H:%M")
IsoTime(hour, minute) == TwoDigits(hour) \o <<":">> \o TwoDigits(minute)

\* Lines 259-273: strptime(f"{date_str} {current_year}", "%a %b %d %Y")
\* wants a weekday, a month, a day of that month in that year and the
\* year, blanks between them; else ValueError and date_str is kept
ParseDate(date_str, year) ==
    LET words == Words(date_str)
        month == {m \in 1..12 : words[2] = Months[m]}
    IN  IF /\ Len(words) = 3
           /\ date_str[Len(date_str)] # " "
           /\ words[1] \in Weekdays
           /\ month # {}
           /\ IsNumber(words[3])
           /\ DigitsValue(words[3]) \in 1..DaysIn(CHOOSE m \in month : TRUE, year)
        THEN IsoDate(year, CHOOSE m \in month : TRUE, DigitsValue(words[3]))
        ELSE date_str

HourAsIs(hour, half) == hour

\* %I and %p to the hour of the day
HourOfDay(hour, half) == (hour % 12) + (IF half = <<"P", "M">> THEN 12 ELSE 0)

\* Lines 276-282: strptime(time_str, "%I:%M %p") wants an hour 1..12, a
\* colon, a minute below 60, blanks and AM or PM (in capitals here); else
\* the exception is caught and time_str is kept
ParseTime(time_str) ==
    LET colons == {j \in 1..Len(time_str) : time_str[j] = ":"}
        at == CHOOSE j \in colons : \A m \in colons : j <= m
        hour == SubSeq(time_str, 1, at - 1)
        rest == SubSeq(time_str, at + 1, Len(time_str))
        words == Words(rest)
    IN  IF /\ colons # {}
           /\ IsNumber(hour)
           /\ DigitsValue(hour) \in 1..12
           /\ Len(words) = 2
           /\ rest[1] # " "
           /\ rest[Len(rest)] # " "
           /\ IsNumber(words[1])
           /\ DigitsValue(words[1]) < 60
           /\ words[2] \in {<<"A", "M">>, <<"P", "M">>}
        THEN IsoTime(HourOfDay(DigitsValue(hour), words[2]), DigitsValue(words[1]))
        ELSE time_str

\* "game_id=" in href
NamesGameId(href) == \E j \in 1..Len(href.params) : href.params[j].key = "game_id"

\* Lines 200-210: the first link that names a game id and yields an integer
RECURSIVE GameIdOfLinks(_, _)
GameIdOfLinks(links, k) ==
    IF k > Len(links) THEN None
    ELSE LET href == links[k].href
             game_id_list == IF href.has_query
                             THEN ParseQs(href.params, "game_id") ELSE <<>>
         IN  IF /\ NamesGameId(href)
                /\ game_id_list # <<>>
                /\ PyInt(game_id_list[1]).ok
             THEN Some(PyInt(game_id_list[1]).val)
             ELSE GameIdOfLinks(links, k + 1)

\* characters that str.isdigit() accepts and int() does not: "^2" stands
\* for SUPERSCRIPT TWO (U+00B2), a digit that is no decimal digit
OtherDigits == {"^2"}

\* text.isdigit()
IsDigits(text) ==
    /\ text # <<>>
    /\ \A j \in 1..Len(text) : IsDigit(text[j]) \/ text[j] \in OtherDigits

\* _extract_game_id: the Game Center cell is cells[12], else cells[11]
ExtractGameId(cells) ==
    IF Len(cells) <= 11 THEN None
    ELSE LET game_center_cell == IF Len(cells) > 12 THEN cells[13] ELSE cells[12]
             linked == GameIdOfLinks(game_center_cell.a, 1)
             text == Strip(game_center_cell.text)
         IN  IF linked.some THEN linked
             ELSE IF IsDigits(text) /\ PyInt(text).ok THEN Some(PyInt(text).val)
             ELSE None

\* Line 215: return int(text) stands outside the try block of the method,
\* so the ValueError of a text that isdigit() accepts and int() does not
\* leaves _extract_game_id
ExtractGameIdRaises(cells) ==
    /\ Len(cells) > 11
    /\ LET game_center_cell == IF Len(cells) > 12 THEN cells[13] ELSE cells[12]
           text == Strip(game_center_cell.text)
       IN  /\ ~GameIdOfLinks(game_center_cell.a, 1).some
           /\ IsDigits(text)
           /\ ~PyInt(text).ok

\* _extract_scoresheet_url: the href of the first link, made absolute
ExtractScoresheetUrl(cell) ==
    IF cell.a = <<>> THEN None ELSE Some(cell.a[1].href)

\* Lines 121-176: one row.  An exception inside the try block is caught
\* at line 174 and the row gives nothing.  from_row is no key of the
\* dictionary: it names the row the record was made from.
GameOfRow(cells, team_id, year, i) ==
    IF Len(cells) < MinScheduleCells THEN <<>>
    ELSE IF ExtractGameIdRaises(cells) THEN <<>>
    ELSE LET date_str == Strip(cells[2].text)
             time_str == Strip(cells[3].text)
             away_goals == Goals(Strip(cells[8].text))
             home_goals == Goals(Strip(cells[10].text))
         IN  <<[game_id |-> ExtractGameId(cells),
                team_id |-> team_id,
                date |-> ParseDate(date_str, year),
                time |-> ParseTime(time_str),
                rink |-> Strip(cells[4].text),
                league |-> Strip(cells[5].text),
                level |-> Strip(cells[6].text),
                away_team |-> Strip(cells[7].text),
                away_goals |-> away_goals,
                home_team |-> Strip(cells[9].text),
                home_goals |-> home_goals,
                is_home |-> None,
                game_type |-> Strip(cells[11].text),
                status |-> Status(away_goals, home_goals),
                scoresheet_url |-> ExtractScoresheetUrl(cells[12]),
                from_row |-> i]>>

RECURSIVE GamesUntilRaise(_, _, _, _)
GamesUntilRaise(rows, i, team_id, year) ==
    IF i > Len(rows) \/ ExtractGameIdRaises(rows[i]) THEN <<>>
    ELSE GameOfRow(rows[i], team_id, year, i)
            \o GamesUntilRaise(rows, i + 1, team_id, year)

\* for row in rows[1:], from row i on: continue after a row that is skipped
RECURSIVE GamesOfRows(_, _, _, _)
GamesOfRows(rows, i, team_id, year) ==
    IF i > Len(rows) THEN <<>>
    ELSE GameOfRow(rows[i], team_id, year, i)
            \o GamesOfRows(rows, i + 1, team_id, year)

\* _parse_schedule_table: for row in rows[1:]
ParseScheduleTable(table, team_id, year) ==
    LET rows == FindAllTr(table)
    IN  IF rows = <<>> THEN <<>> ELSE GamesOfRows(rows, 2, team_id, year)

LastTable(tables) == tables[Len(tables)]

\* soup.find("table"), when there is one
FindTable(tables) == tables[1]

\* the team whose schedule is asked for
RequestedTeam == 7

\* Lines 81-91: the games of the first table of the page, none without
\* a table
GamesOfPage(page, year) ==
    IF FindAllTables(page) = <<>> THEN <<>>
    ELSE ParseScheduleTable(FindTable(FindAllTables(page)), RequestedTeam, year)

\* get_team_schedule from line 81 on, the page fetched
ParseSchedule ==
    /\ ~returned
    /\ games' = GamesOfPage(html, current_year)
    /\ returned' = TRUE
    /\ UNCHANGED <<fetching, html, current_year, teams>>

NextSchedule == ParseSchedule

\* ------------------------------------------------------------ schedule input
\* most data rows of a schedule table of a page with several tables
MaxGames == 2

Text(words) ==
    IF Len(words) = 0 THEN <<>>
    ELSE IF Len(words) = 1 THEN words[1]
    ELSE IF Len(words) = 2 THEN words[1] \o <<" ">> \o words[2]
    ELSE words[1] \o <<" ">> \o words[2] \o <<" ">> \o words[3]

Wed == <<"W", "e", "d">>

Sep == <<"S", "e", "p">>

Feb == <<"F", "e", "b">>

\* Wed Sep 10; TBD; nothing; Wed Feb 29; Wed Sep 31; Sep 10; Wed Sep 5
DateCells ==
    {Text(<<Wed, Sep, <<"1", "0">>>>), <<"T", "B", "D">>, <<>>,
     Text(<<Wed, Feb, <<"2", "9">>>>), Text(<<Wed, Sep, <<"3", "1">>>>),
     Text(<<Sep, <<"1", "0">>>>), Text(<<Wed, Sep, <<"5">>>>)}

PM == <<"P", "M">>

AM == <<"A", "M">>

\* 9:45 PM; 12:05 AM; 12:30 PM; TBD; nothing; 21:45; 13:00 PM; 9:45PM
TimeCells ==
    {Text(<<<<"9", ":", "4", "5">>, PM>>), Text(<<<<"1", "2", ":", "0", "5">>, AM>>),
     Text(<<<<"1", "2", ":", "3", "0">>, PM>>), <<"T", "B", "D">>, <<>>,
     <<"2", "1", ":", "4", "5">>, Text(<<<<"1", "3", ":", "0", "0">>, PM>>),
     <<"9", ":", "4", "5", "P", "M">>}

AwayScores == {<<>>, <<"3">>, <<"0">>, <<"x">>}

HomeScores == {<<>>, <<"2">>, <<"0">>}

\* oss-scoresheet?game_id=...&mode=display
GameHref(v) == [has_query |-> TRUE,
                params |-> <<Pair("game_id", v), Pair("mode", <<"d">>)>>]

\* the first n cells of: game, date, time, rink, league, level, away,
\* goals, home, goals, type, scoresheet, game center
GameRow(date, time, away, home, id, n) ==
    SubSeq(<<Cell(id), Cell(date), Cell(time), Cell(<<"S", "J">>), Cell(<<"S">>),
             Cell(<<"4", "B">>), Cell(<<"A", "w", "a", "y">>), Cell(away),
             Cell(<<"H", "o", "m", "e">>), Cell(home), Cell(<<"R", "S">>),
             LinkCell(<<>>, GameHref(id)), LinkCell(<<>>, GameHref(id))>>, 1, n)

\* a row of the first team's page and one that stands elsewhere, and a row
\* that is too short
PageGames ==
    {GameRow(Text(<<Wed, Sep, <<"1", "0">>>>), Text(<<<<"9", ":", "4", "5">>, PM>>),
             <<"3">>, <<"2">>, id, n) :
        id \in {<<"1">>, <<"2">>}, n \in {MinScheduleCells + 1}}
    \cup {GameRow(<<>>, <<>>, <<>>, <<>>, <<"3">>, MinScheduleCells - 1)}

Years == {ThisYear, ThisYear + 3}

\* pages of no, one or more schedule tables
InitSchedule ==
    /\ InitParsing
    /\ html \in SeqsUpTo({Table(<<"Schedule">>, rows) :
                            rows \in SeqsUpTo(PageGames, MaxGames)}, MaxTables)

SpecSchedule == InitSchedule /\ [][NextSchedule]_vars

\* one schedule table of one row, with every date, time and score cell, in
\* a common year and in a leap year
InitGame ==
    /\ callers = {1}
    /\ uses = [c \in Callers |-> "A"]
    /\ served = [c \in Callers |-> PlainResponses]
    /\ latencies = {0}
    /\ max_retries = 0
    /\ delay_seconds = 1
    /\ max_sessions = 0
    /\ InitInstance
    /\ NoChat
    /\ current_year \in Years
    /\ teams = <<>>
    /\ games = <<>>
    /\ returned = FALSE
    /\ html \in {<<Table(<<"Schedule">>, <<GameRow(d, t, a, h, <<"1">>, n)>>)>> :
                    d \in DateCells, t \in TimeCells, a \in AwayScores,
                    h \in HomeScores, n \in {MinScheduleCells}}

SpecGame == InitGame /\ [][NextSchedule]_vars

\* <a href="oss-scoresheet?game_id=...&mode=display">
GameLink(v) == [text |-> <<>>, href |-> GameHref(v)]

\* the anchors of a game center cell: none; game 5; a game_id that is no
\* integer, alone and before game 7; game_id left blank; "game_id=5"
\* without "?"; no game_id parameter
CenterLinks ==
    {<<>>, <<GameLink(<<"5">>)>>, <<GameLink(<<"a", "b">>)>>,
     <<GameLink(<<"a", "b">>), GameLink(<<"7">>)>>, <<GameLink(<<>>)>>,
     <<[text |-> <<>>,
        href |-> [has_query |-> FALSE, params |-> <<Pair("game_id", <<"5">>)>>]]>>,
     <<[text |-> <<>>,
        href |-> [has_query |-> TRUE, params |-> <<Pair("mode", <<"d">>)>>]]>>}

\* the text of a game center cell: nothing, 42, 42 in blanks, 4x, and the
\* superscript two
CenterTexts == {<<>>, <<"4", "2">>, <<" ", "4", "2", " ">>, <<"4", "x">>, <<"^2">>}

\* a schedule row of n cells that ends in the given cell; before it, the
\* cells of game 9
CenterRow(center, n) ==
    GameRow(Text(<<Wed, Sep, <<"1", "0">>>>), Text(<<<<"9", ":", "4", "5">>, PM>>),
            <<>>, <<>>, <<"9">>, n - 1) \o <<center>>

\* one schedule table of one row of 12 or of 13 cells
InitGameId ==
    /\ InitParsing
    /\ html \in {<<Table(<<"Schedule">>,
                         <<CenterRow([text |-> t, a |-> l], n)>>)>> :
                    t \in CenterTexts, l \in CenterLinks,
                    n \in {MinScheduleCells, MinScheduleCells + 1}}

SpecGameId == InitGameId /\ [][NextSchedule]_vars

\* ------------------------------------------------------------ handlers
\* the handlers that create a scraper
Handlers == {"process_player_name", "cmd_myteam", "cmd_nextgame"}

\* scraper = TeamScraper() or scraper = ScheduleScraper()
ScraperClass(name) ==
    IF name = "cmd_nextgame" THEN "ScheduleScraper" ELSE "TeamScraper"

\* the keyword parameters of def __init__(self) of BaseScraper
InitKeywords == {}

\* the keywords the __init__ of the class hands to super().__init__
SuperInitKeywords(cls) == IF cls = "ScheduleScraper" THEN {"base_url"} ELSE {}

\* constructing the scraper raises TypeError: __init__() got an unexpected
\* keyword argument
ConstructorRaises(cls) == ~(SuperInitKeywords(cls) \subseteq InitKeywords)

ExceptScraperError(kind) == IsScraperError(kind)

\* except Exception as e: every class a scrape raises is an Exception
ExceptException(kind) == TRUE

\* len(player_name) < 3
MinNameLength == 3

TooShortAsSent(text) == Len(text) < MinNameLength

\* player_name = message.text.strip();
\* if not player_name or len(player_name) < 3
TooShort(text) == Len(Strip(text)) < MinNameLength

\* what the user may send as the player name
Names == {<<"J", "o">>, <<" ", "J", "o", " ">>, <<"J", "o", "e">>,
          <<" ", "J", "o", "e", " ">>}

\* cmd_start: a user without player profile is asked for the name
CmdStart(c) ==
    /\ c \in callers
    /\ pc[c] = "idle"
    /\ handler[c].at \in {"none", "returned"}
    /\ handler' = [handler EXCEPT ![c] =
            [NoHandler EXCEPT !.name = "cmd_start", !.at = "returned"]]
    /\ IF db.player_profiles # <<>>
       THEN answers' = <<"welcome back">> /\ UNCHANGED state
       ELSE answers' = <<"welcome">> /\ state' = "waiting_for_player_name"
    /\ UNCHANGED <<config, pages, sessions, pc, retries, timer, response, logs, ages,
                   gaps, scope, data, db, callbacks>>

\* process_player_name (start.py), cmd_myteam or cmd_nextgame
\* (team_analytics.py) is called.  It may return before it needs the site
\* (a name that is too short, a user without profile or team); else it
\* tells the user to wait and constructs a scraper of its own, inside its
\* try block.
HandlerStart(c, name) ==
    /\ c \in callers
    /\ pc[c] = "idle"
    /\ handler[c].at \in {"none", "returned"}
    /\ name = "process_player_name" => state = "waiting_for_player_name"
    /\ \E text \in Names, onboarded \in BOOLEAN :
        LET run == [NoHandler EXCEPT !.name = name,
                        !.text = IF name = "process_player_name" THEN text ELSE <<>>]
            early == IF name = "process_player_name"
                     THEN TooShort(text)
                     ELSE ~onboarded
        IN  IF early
            THEN /\ handler' = [handler EXCEPT ![c] = [run EXCEPT !.at = "returned"]]
                 /\ answers' = <<IF name = "process_player_name"
                                 THEN "invalid" ELSE "no profile">>
                 /\ UNCHANGED <<sessions, ages, state, data>>
            ELSE IF ConstructorRaises(ScraperClass(name))
            THEN /\ IF ExceptException("TypeError")
                    THEN /\ handler' = [handler EXCEPT ![c] =
                                [run EXCEPT !.at = "returned"]]
                         /\ answers' = <<"progress", "error">>
                         /\ IF name = "process_player_name"
                            THEN state' = NoState /\ data' = NoData
                            ELSE UNCHANGED <<state, data>>
                    ELSE /\ handler' = [handler EXCEPT ![c] =
                                [run EXCEPT !.at = "escaped"]]
                         /\ answers' = <<"progress">>
                         /\ UNCHANGED <<state, data>>
                 /\ UNCHANGED <<sessions, ages>>
            ELSE /\ handler' = [handler EXCEPT ![c] =
                        [run EXCEPT !.at = "created", !.scraper = uses[c]]]
                 /\ answers' = <<"progress">>
                 /\ session' = [session EXCEPT ![Of(c)] = "None"]
                 /\ live' = [live EXCEPT ![Of(c)] = 0]
                 /\ opened' = [opened EXCEPT ![Of(c)] = 0]
                 /\ time_since_last_request' =
                        [time_since_last_request EXCEPT ![Of(c)] = MaxDelay]
                 /\ since_dispatch' = [since_dispatch EXCEPT ![uses[c]] = MaxDelay]
                 /\ since_complete' = [since_complete EXCEPT ![uses[c]] = MaxDelay]
                 /\ own_since' = [own_since EXCEPT ![c] = MaxDelay]
                 /\ UNCHANGED <<state, data>>
    /\ UNCHANGED <<config, pages, pc, retries, timer, response, logs, gaps, scope, db,
                   callbacks>>

\* teams_data = await scraper.get_all_teams(): its first statement of
\* effect is html = await self._fetch_html(url, params)
GetAllTeams(c) ==
    /\ handler[c].at = "created"
    /\ Call(c)
    /\ handler' = [handler EXCEPT ![c].at = "fetching", ![c].calls = @ + 1]
    /\ UNCHANGED scope

\* next((t for t in teams_data if t["team_id"] == primary_team.team_id), None)
HasTeam(teams_data, team_id) ==
    \E k \in 1..Len(teams_data) : teams_data[k].team_id = Some(team_id)

\* get_all_teams has returned or raised: the rest of the handler.  An
\* exception ends in the except clause of the handler; the records of
\* process_player_name go to the FSM data and the user is asked to select.
\* Neither handler closes its scraper, on any path.
HandlerReturn(c) ==
    /\ handler[c].at = "fetching"
    /\ pc[c] = "idle"
    /\ IF Raised(c)
       THEN /\ teams' = <<>>
            /\ IF ExceptException(result[c].kind)
               THEN /\ handler' = [handler EXCEPT ![c].at = "returned"]
                    /\ answers' = Append(answers, "error")
                    /\ IF handler[c].name = "process_player_name"
                       THEN state' = NoState /\ data' = NoData
                       ELSE UNCHANGED <<state, data>>
               ELSE /\ handler' = [handler EXCEPT ![c].at = "escaped"]
                    /\ UNCHANGED <<answers, state, data>>
       ELSE LET teams_data == TeamsOfTables(FindAllTables(html), 1)
            IN  /\ teams' = teams_data
                /\ handler' = [handler EXCEPT ![c].at = "returned"]
                /\ IF handler[c].name = "process_player_name"
                   THEN IF teams_data = <<>>
                        THEN /\ answers' = Append(answers, "empty")
                             /\ state' = NoState
                             /\ data' = NoData
                        ELSE /\ data' = [data EXCEPT
                                    !.player_name = Strip(handler[c].text),
                                    !.teams = teams_data]
                             /\ answers' = Append(answers, "keyboard")
                             /\ state' = "waiting_for_team_selection"
                   ELSE /\ answers' = Append(answers,
                                IF HasTeam(teams_data, RequestedTeam)
                                THEN "result" ELSE "not found")
                        /\ UNCHANGED <<state, data>>
    /\ UNCHANGED <<config, sessions, pc, retries, timer, response, logs, ages, gaps,
                   scope, db, callbacks, html, current_year, games, returned>>

\* the standings page the site serves: no table, team 7, team 8
HandlerPages ==
    {<<>>, <<Table(Division1, <<GoodRow(<<"7">>)>>)>>,
     <<Table(Division1, <<GoodRow(<<"8">>)>>)>>}

\* what the site answers a handler's scraper with: the page, a failure of
\* the transport, the timeout, an error status, a 429 with an HTTP date
HandlerResponses ==
    {rsp \in Responses :
        /\ rsp.status \in {0, 200, 404, 429}
        /\ rsp.status = 429 => ~RetryAfter(rsp).ok}

InitHandler ==
    /\ callers = {1}
    /\ uses = [c \in Callers |-> "A"]
    /\ served = [c \in Callers |-> HandlerResponses]
    /\ latencies = {0}
    /\ max_retries \in {0, MaxConcRetries}
    /\ delay_seconds \in {1, MaxDelay}
    /\ max_sessions = 0
    /\ InitInstance
    /\ NoChat
    /\ html \in HandlerPages
    /\ current_year = ThisYear
    /\ teams = <<>>
    /\ games = <<>>
    /\ returned = FALSE

NextHandler ==
    \/ \E c \in Callers : CmdStart(c)
    \/ \E c \in Callers, name \in Handlers : HandlerStart(c, name)
    \/ \E c \in Callers : GetAllTeams(c)
    \/ \E c \in Callers : RateWake(c)
    \/ \E c \in Callers : Respond(c)
    \/ \E c \in Callers : Retry(c)
    \/ \E c \in Callers : HandlerReturn(c)
    \/ Advance

SpecHandler == InitHandler /\ [][NextHandler]_vars

\* ------------------------------------------------------------ team selection
\* the key the records of _parse_standings_table keep the name under
NameKey == "name"

\* team_data["team_name"], the key process_team_selection reads
TeamNameKey == "team_name"

\* a dictionary that answers every key
NoKeyError(team_data, key) == FALSE

\* team_data[key] raises KeyError
KeyErrorOf(team_data, key) == key \notin DOMAIN team_data

\* uq_user_player_season: the user and the season are the same in every
\* row of one user, so a second row of the same player name is refused
ProfileRefused(rows, player_name) ==
    \E k \in 1..Len(rows) : rows[k].player_name = player_name

\* how many button presses of one conversation are followed
MaxCallbacks == 3

Callback(query, arg, alert) == [query |-> query, arg |-> arg, alert |-> alert]

\* a handler of a button press has returned: what it was and what
\* callback.answer or edit_text told the user
Answered(c, name, query, arg, alert) ==
    /\ handler' = [handler EXCEPT ![c] =
            [NoHandler EXCEPT !.name = name, !.at = "returned"]]
    /\ answers' = <<alert>>
    /\ callbacks' = Append(callbacks, Callback(query, arg, alert))

\* process_team_selection, lines 151-266, for callback data
\* "select_team:<team_idx>".  Every commit before the statement that
\* raises stays in the database; the except clause answers with an alert
\* and touches neither the FSM nor the database.  user.preferences is an
\* attribute the query of line 197 did not load: reading it in an
\* AsyncSession either loads it or raises, as the driver allows.
ProcessTeamSelection(c, team_idx) ==
    /\ c \in callers
    /\ pc[c] = "idle"
    /\ handler[c].at \in {"none", "returned"}
    /\ state = "waiting_for_team_selection"
    /\ Len(callbacks) < MaxCallbacks
    /\ \E load_raises \in BOOLEAN :
        LET said(alert) ==
                Answered(c, "process_team_selection", "select_team", team_idx, alert)
            selected_teams == data.selected_teams
            team_data == data.teams[team_idx + 1]
            stored == team_data.team_id.val \in db.teams
            with_team == [db EXCEPT !.teams = @ \cup {team_data.team_id.val}]
            with_profile ==
                [with_team EXCEPT
                    !.player_profiles =
                        Append(@, [player_name |-> data.player_name,
                                   season |-> Season, verified |-> FALSE])]
            with_player_team ==
                [with_profile EXCEPT
                    !.player_teams =
                        Append(@, [player_profile_id |-> Len(with_profile.player_profiles),
                                   team_id |-> team_data.team_id.val,
                                   season |-> Season,
                                   is_primary |-> Len(selected_teams) = 0])]
            with_preferences == [with_player_team EXCEPT !.user_preferences = 1]
        IN  IF team_idx >= Len(data.teams)
            THEN said("invalid") /\ UNCHANGED <<state, data, db>>
            ELSE IF \E k \in 1..Len(selected_teams) : selected_teams[k] = team_idx
            THEN said("already selected") /\ UNCHANGED <<state, data, db>>
            ELSE IF ~stored /\ KeyErrorOf(team_data, TeamNameKey)
            THEN said("error") /\ UNCHANGED <<state, data, db>>
            ELSE IF ProfileRefused(db.player_profiles, data.player_name)
            THEN said("error") /\ db' = with_team /\ UNCHANGED <<state, data>>
            ELSE IF db.user_preferences = 0 /\ load_raises
            THEN said("error") /\ db' = with_player_team /\ UNCHANGED <<state, data>>
            ELSE /\ db' = with_preferences
                 /\ data' = [data EXCEPT !.selected_teams = Append(@, team_idx)]
                 /\ said(IF KeyErrorOf(team_data, TeamNameKey)
                         THEN "error" ELSE "added")
                 /\ UNCHANGED state
    /\ UNCHANGED <<config, pages, sessions, pc, retries, timer, response, logs, ages,
                   gaps, scope>>

\* finish_onboarding, lines 269-291: registered for any state
FinishOnboarding(c) ==
    /\ c \in callers
    /\ pc[c] = "idle"
    /\ handler[c].at \in {"none", "returned"}
    /\ Len(callbacks) < MaxCallbacks
    /\ IF data.selected_teams = <<>>
       THEN /\ Answered(c, "finish_onboarding", "finish_onboarding", 0, "select one")
            /\ UNCHANGED <<state, data>>
       ELSE /\ Answered(c, "finish_onboarding", "finish_onboarding", 0, "complete")
            /\ state' = NoState
            /\ data' = NoData
    /\ UNCHANGED <<config, pages, sessions, pc, retries, timer, response, logs, ages,
                   gaps, scope, db>>

\* add_another_team, lines 294-335: the keyboard of the teams not selected
AddAnotherTeam(c) ==
    /\ c \in callers
    /\ pc[c] = "idle"
    /\ handler[c].at \in {"none", "returned"}
    /\ Len(callbacks) < MaxCallbacks
    /\ Answered(c, "add_another_team", "add_another_team", 0, "keyboard")
    /\ UNCHANGED <<config, pages, sessions, pc, retries, timer, response, logs, ages,
                   gaps, scope, state, data, db>>

\* cancel_onboarding, lines 338-346
CancelOnboarding(c) ==
    /\ c \in callers
    /\ pc[c] = "idle"
    /\ handler[c].at \in {"none", "returned"}
    /\ Len(callbacks) < MaxCallbacks
    /\ Answered(c, "cancel_onboarding", "cancel_onboarding", 0, "cancelled")
    /\ state' = NoState
    /\ data' = NoData
    /\ UNCHANGED <<config, pages, sessions, pc, retries, timer, response, logs, ages,
                   gaps, scope, db>>

\* the standings page process_player_name fetched: one team or two
SelectPages ==
    {<<Table(Division1, <<GoodRow(<<"7">>)>>)>>,
     <<Table(Division1, <<GoodRow(<<"7">>), GoodRow(<<"8">>)>>)>>}

\* the team ids of the page
PageTeams == {7, 8}

\* process_player_name has returned with the keyboard of the teams of the
\* page: the user is at the selection step, with no profile yet (cmd_start
\* sends a user who has one away).  The table teams, which no handler but
\* process_team_selection writes, holds any of the teams of the page.
InitSelect ==
    /\ callers = {1}
    /\ uses = [c \in Callers |-> "A"]
    /\ served = [c \in Callers |-> PlainResponses]
    /\ latencies = {0}
    /\ max_retries = 0
    /\ delay_seconds = 1
    /\ max_sessions = 0
    /\ InitInstance
    /\ html \in SelectPages
    /\ current_year = ThisYear
    /\ teams = TeamsOfTables(FindAllTables(html), 1)
    /\ games = <<>>
    /\ returned = FALSE
    /\ state = "waiting_for_team_selection"
    /\ \E text \in {n \in Names : ~TooShort(n)} :
            data = [NoData EXCEPT !.player_name = Strip(text), !.teams = teams]
    /\ answers = <<"progress", "keyboard">>
    /\ \E stored \in SUBSET PageTeams : db = [NoRows EXCEPT !.teams = stored]
    /\ callbacks = <<>>

NextSelect ==
    \/ \E c \in Callers, team_idx \in 0..MaxRows : ProcessTeamSelection(c, team_idx)
    \/ \E c \in Callers : FinishOnboarding(c)
    \/ \E c \in Callers : AddAnotherTeam(c)
    \/ \E c \in Callers : CancelOnboarding(c)

SpecSelect == InitSelect /\ [][NextSelect]_vars

\* ------------------------------------------------------------ extractor calls
\* the extractors a caller awaits on a scraper
Extractors == {"get_all_teams", "get_team_schedule"}

\* get_all_teams() or get_team_schedule(team_id) is awaited: its first
\* statement of effect is html = await self._fetch_html(url, params)
ExtractorCall(c, name) ==
    /\ handler[c].at \in {"none", "returned", "raised"}
    /\ Call(c)
    /\ handler' = [handler EXCEPT ![c] =
            [NoHandler EXCEPT !.name = name, !.at = "fetching",
                              !.scraper = uses[c], !.calls = 1]]
    /\ UNCHANGED scope

\* The fetch has ended.  Its exception passes through except Exception:
\* raise (team_scraper.py:97-99, schedule_scraper.py:93-95); its page is
\* parsed and the records are returned.
ExtractorEnd(c) ==
    /\ handler[c].name \in Extractors
    /\ handler[c].at = "fetching"
    /\ pc[c] = "idle"
    /\ IF Raised(c)
       THEN /\ handler' = [handler EXCEPT ![c].at = "raised"]
            /\ teams' = <<>>
            /\ games' = <<>>
            /\ returned' = FALSE
       ELSE /\ handler' = [handler EXCEPT ![c].at = "returned"]
            /\ teams' = IF handler[c].name = "get_all_teams"
                        THEN TeamsOfTables(FindAllTables(html), 1) ELSE <<>>
            /\ games' = IF handler[c].name = "get_team_schedule"
                        THEN GamesOfPage(html, current_year) ELSE <<>>
            /\ returned' = TRUE
    /\ UNCHANGED <<config, bot, sessions, pc, retries, timer, response, logs, ages,
                   gaps, scope, html, current_year>>

\* a table without division heading, then one with it whose rows are a
\* row of 7 cells, a row without anchor and the row of team 8
StandingsPage ==
    <<Table(<<"Standings">>, <<GoodRow(<<"7">>)>>),
      Table(Division1,
            <<StandingsRow(TeamA(<<"7">>), <<"5">>, <<"6">>, MinStandingsCells - 1),
              StandingsRow(Cell(<<"TeamA">>), <<"5">>, <<"6">>, MinStandingsCells),
              GoodRow(<<"8">>)>>)>>

\* a schedule table whose rows are a row that makes int() raise, a row
\* of 11 cells and the row of game 5
SchedulePage ==
    <<Table(<<"Schedule">>,
            <<CenterRow(Cell(<<"^2">>), MinScheduleCells),
              GameRow(<<>>, <<>>, <<>>, <<>>, <<"3">>, MinScheduleCells - 1),
              CenterRow([text |-> <<>>, a |-> <<GameLink(<<"5">>)>>],
                        MinScheduleCells + 1)>>)>>

InitExtract ==
    /\ callers = {1}
    /\ uses = [c \in Callers |-> "A"]
    /\ served = [c \in Callers |-> HandlerResponses]
    /\ latencies = {0}
    /\ max_retries \in {0, MaxConcRetries}
    /\ delay_seconds \in {1, MaxDelay}
    /\ max_sessions = 0
    /\ InitInstance
    /\ NoChat
    /\ html \in {<<>>, StandingsPage, SchedulePage}
    /\ current_year = ThisYear
    /\ teams = <<>>
    /\ games = <<>>
    /\ returned = FALSE

NextExtract ==
    \/ \E c \in Callers, name \in Extractors : ExtractorCall(c, name)
    \/ \E c \in Callers : RateWake(c)
    \/ \E c \in Callers : Respond(c)
    \/ \E c \in Callers : Retry(c)
    \/ \E c \in Callers : ExtractorEnd(c)
    \/ Advance

SpecExtract == InitExtract /\ [][NextExtract]_vars

\* ------------------------------------------------------------ properties
Last(s) == s[Len(s)]

\* the call of c has ended, with a body or an exception
Finished(c) == pc[c] = "idle" /\ result[c].kind # "none"

\* the last attempt of c has been answered and handled, and no later
\* attempt has begun: response[c] and retries[c] are that attempt's
Handled(c) == attempts[c] > 0 /\ pc[c] \in {"idle", "backoff", "cooldown"}

AllMet(c, kinds) == \A i \in 1..Len(outcomes[c]) : outcomes[c][i] \in kinds

Count(c, kind) == Cardinality({i \in 1..Len(outcomes[c]) : outcomes[c][i] = kind})

Backoff(seconds) == [kind |-> "backoff", seconds |-> seconds]

Cooldown(seconds) == [kind |-> "cooldown", seconds |-> seconds]

\* C1: with a ceiling of at least 2, a fetch whose first two attempts fail
\* in the transport and whose third succeeds goes on to the third attempt,
\* returns that attempt's body, has made exactly three attempts and has
\* slept exactly twice between them, 1s and then 2s.
C1_RetryThenSuccess ==
    \A c \in callers :
        /\ (max_retries >= 2 /\ outcomes[c] = <<"conn", "conn">>) =>
                /\ ~Finished(c)
                /\ waits[c] = <<Backoff(1), Backoff(2)>>
        /\ outcomes[c] = <<"conn", "conn", "ok">> =>
                /\ Finished(c)
                /\ result[c] = [kind |-> "html", attempt |-> 3]
                /\ attempts[c] = 3
                /\ waits[c] = <<Backoff(1), Backoff(2)>>

C1_Witness ==
    /\ outcomes[1] = <<"conn", "conn", "ok">>
    /\ result[1].kind = "html"
    /\ max_retries >= 2

\* C2: while every attempt fails in the transport (a connection failure
\* or an error status that raise_for_status raises), the fetch makes
\* max_retries + 1 attempts, sleeps 2^k seconds after failed attempt k
\* (k = 0 .. max_retries - 1), then raises ScraperError: no body, and no
\* sleep after the last attempt.
C2_ExhaustedRetries ==
    \A c \in callers :
        (outcomes[c] # <<>> /\ AllMet(c, {"conn", "error"})) =>
            /\ attempts[c] <= max_retries + 1
            /\ Len(waits[c]) = Min(Len(outcomes[c]), max_retries)
            /\ \A i \in 1..Len(waits[c]) : waits[c][i] = Backoff(2 ^ (i - 1))
            /\ Finished(c) <=> Len(outcomes[c]) = max_retries + 1
            /\ Finished(c) => result[c] = [kind |-> "ScraperError",
                                           attempt |-> max_retries + 1]
            /\ (Finished(c) /\ max_retries = 3) =>
                    waits[c] = <<Backoff(1), Backoff(2), Backoff(4)>>

C2_Witness ==
    /\ max_retries = 3
    /\ outcomes[1] = <<"conn", "conn", "conn", "conn">>
    /\ result[1].kind = "ScraperError"

\* C3: transport errors and 429 responses share one ceiling: whatever their
\* order, a fetch makes at most max_retries + 1 attempts and ends with a
\* body or a ScraperError, a RateLimitError when the last attempt met a 429.
C3_SharedCeiling ==
    \A c \in callers :
        AllMet(c, {"conn", "429", "ok"}) =>
            /\ attempts[c] <= max_retries + 1
            /\ Finished(c) =>
                    \/ result[c].kind = "html"
                    \/ /\ IsScraperError(result[c].kind)
                       /\ Len(outcomes[c]) = max_retries + 1
                       /\ Last(outcomes[c]) = "429" <=>
                                result[c].kind = "RateLimitError"

\* C4: a 429 on an attempt with retries left is followed by the cool-down
\* sleep and a retry, never by the exponential backoff; a transport error
\* is never followed by the cool-down sleep.
C4_CooldownPath ==
    \A c \in callers :
        Handled(c) =>
            /\ (Met(response[c]) = "429" /\ retries[c] < max_retries) =>
                    /\ pc[c] = "cooldown"
                    /\ Last(waits[c]).kind = "cooldown"
            /\ Met(response[c]) = "conn" => pc[c] # "cooldown"

\* C5: on the first 429 of a fetch the sleep before the retry is the
\* advertised Retry-After when the response carries one, else 60 seconds.
C5_AdvertisedCooldown ==
    \A c \in callers :
        (pc[c] = "cooldown" /\ Count(c, "429") = 1) =>
            Last(waits[c]).seconds =
                IF response[c].retry_after.present
                THEN RetryAfter(response[c]).val
                ELSE 60

\* an attempt of c that failed like a connection failure: backoff of
\* 2^retries seconds while retries remain, else ScraperError
RetriedAsTransport(c) ==
    IF retries[c] < max_retries
    THEN /\ pc[c] = "backoff"
         /\ Last(waits[c]) = Backoff(2 ^ retries[c])
         /\ timer[c] <= Ticks(2 ^ retries[c])
    ELSE /\ Finished(c)
         /\ result[c].kind = "ScraperError"

C7_TimeoutAsTransport ==
    \A c \in callers :
        (Handled(c) /\ Met(response[c]) = "timeout") => RetriedAsTransport(c)

\* C8: with one caller at a time, two consecutive dispatches of the
\* instance are at least delay_seconds apart, and a coroutine inside the
\* rate-limit sleep is not resumed before that.
C8_MinimumSpacing ==
    /\ spaced
    /\ \A c \in callers :
        pc[c] = "rate_sleep" =>
            since_dispatch[uses[c]] + timer[c] >= delay_seconds

C8_Witness ==
    /\ pc[1] = "inflight"
    /\ attempts[1] = 1
    /\ rate_slept[1] = delay_seconds
    /\ since_dispatch[uses[1]] = 0
    /\ since_complete[uses[1]] = delay_seconds

InFlight == {c \in callers : pc[c] = "inflight"}

\* C10 as stated: also with two concurrent callers, at most one request of
\* the instance is in flight and consecutive dispatches keep the delay.
C10_OneInFlight == Cardinality(InFlight) <= 1 /\ spaced

\* C10 amended: with two concurrent callers, the delay holds between the
\* consecutive dispatches of each caller, and a caller in the rate-limit
\* sleep is not resumed before its own last dispatch is delay_seconds old.
C10_OwnSpacing ==
    /\ spaced_own
    /\ \A c \in callers :
        pc[c] = "rate_sleep" => own_since[c] + timer[c] >= delay_seconds

C10_Witness ==
    /\ InFlight = {1, 2}
    /\ rate_slept[1] > 0
    /\ rate_slept[2] > 0
    /\ ~spaced
    /\ spaced_own

\* caller c takes part in the step: its fetch moves or ends
Moves(c) == pc'[c] # pc[c] \/ result'[c] # result[c] \/ attempts'[c] # attempts[c]

\* the fields of the instance of c are written in the step (ageing of the
\* time stamp apart)
Written(c) ==
    \/ session'[uses[c]] # session[uses[c]]
    \/ time_since_last_request'[uses[c]] < time_since_last_request[uses[c]]
    \/ retries'[c] # retries[c]

\* C11: with two instances, each used by one caller: a step that writes
\* the session, the last-request time or the retry count of one instance is
\* no step of the other instance's caller and writes nothing of the other
\* instance; an instance's time stamp is the age of its own last dispatch,
\* its session is open throughout its own fetch, and its rate-limit sleep
\* is measured from its own last dispatch only.
C11_InstancesIsolated ==
    /\ [][\A c \in callers : Written(c) =>
            \A k \in callers \ {c} : ~Moves(k) /\ ~Written(k)]_vars
    /\ [](\A c \in callers :
            /\ time_since_last_request[uses[c]] = own_since[c]
            /\ pc[c] # "idle" => session[uses[c]] = "open"
            /\ pc[c] = "rate_sleep" =>
                /\ timer[c] > 0 => own_since[c] + timer[c] = delay_seconds
                /\ rate_slept[c] <= delay_seconds)

C11_Witness ==
    /\ pc[1] = "cooldown"
    /\ own_since[1] < delay_seconds
    /\ pc[2] = "inflight"
    /\ attempts[2] = 1
    /\ own_since[2] = 0
    /\ rate_slept[2] = 0
    /\ retries[2] = 0
    /\ session["A"] = "open"
    /\ session["B"] = "open"

\* C12: when a caller has left an async with block of its scraper, by
\* falling off the end or by an exception of a fetch (the failure after
\* the last retry too), the session of the scraper is closed: none is open
\* until the caller uses the scraper again.
C12_ClosedOnExit ==
    \A c \in callers : scope[c] = "left" => session[uses[c]] = "None"

C12_Witness ==
    /\ scope[1] = "left"
    /\ max_retries > 0
    /\ result[1] = [kind |-> "ScraperError", attempt |-> max_retries + 1]
    /\ session[uses[1]] = "None"

\* C13: when process_player_name or cmd_myteam has returned, the scraper
\* it created holds no open session.
C13_HandlerReleasesSession ==
    \A c \in callers :
        (handler[c].at = "returned" /\ handler[c].scraper # "none") =>
            session[handler[c].scraper] = "None"

\* ------------------------------------------------------------ standings claims
\* the records made from row i of table t
RecordsOf(t, i) ==
    {k \in 1..Len(teams) : teams[k].from_table = t /\ teams[k].from_row = i}

\* the first-cell anchor of the row carries no team parameter
NoTeamParam(row) ==
    /\ row # <<>>
    /\ row[1].a # <<>>
    /\ \A j \in 1..Len(row[1].a[1].href.params) :
            row[1].a[1].href.params[j].key # "team"

\* C14: every row after the header that has fewer than 8 cells, and every
\* row whose first-cell anchor has no team parameter in its href, gives no
\* record; the extractor returns all the same, and every well-formed row
\* of the table, before or after such a row, gives its record.
C14_MalformedRowsSkipped ==
    returned =>
        \A i \in 2..Len(html[1].rows) :
            LET row == html[1].rows[i]
            IN  /\ (Len(row) < 8 \/ NoTeamParam(row)) => RecordsOf(1, i) = {}
                /\ row \in GoodRows => Cardinality(RecordsOf(1, i)) = 1

C14_Witness ==
    /\ returned
    /\ Len(html[1].rows) = 4
    /\ Len(html[1].rows[2]) = 7
    /\ NoTeamParam(html[1].rows[3])
    /\ html[1].rows[4] = GoodRow(<<"8">>)
    /\ Len(teams) = 1
    /\ teams[1].from_row = 4
    /\ teams[1].team_id = Some(8)

\* the text is an integer in decimal digits: 5, 12, 0
IsInteger(text) ==
    /\ text # <<>>
    /\ \A j \in 1..Len(text) : text[j] \in {"0", "1", "2", "3", "4", "5", "6", "7", "8", "9"}

\* the team parameter of the first-cell anchor, <<>> when there is none
TeamParam(row) ==
    LET params == row[1].a[1].href.params
        at == {j \in 1..Len(params) : params[j].key = "team"}
    IN  IF row[1].a = <<>> \/ ~row[1].a[1].href.has_query \/ at = {} THEN <<>>
        ELSE params[CHOOSE j \in at : \A m \in at : j <= m].value

\* C15: a row of at least 8 cells whose team id is an integer (not 0) is
\* emitted whatever its counter cells hold, and a counter cell that is
\* empty or no integer reads 0; a row whose team id is absent or no integer
\* is dropped; the team id of a record is never null.
C15_LenientCountersStrictIdentity ==
    returned =>
        /\ \A k \in 1..Len(teams) : teams[k].team_id.some
        /\ \A i \in 2..Len(html[1].rows) :
            LET row == html[1].rows[i]
            IN  Len(row) >= 8 =>
                  /\ ~IsInteger(TeamParam(row)) => RecordsOf(1, i) = {}
                  /\ (IsInteger(TeamParam(row)) /\ TeamParam(row) # <<"0">>) =>
                        \E k \in RecordsOf(1, i) :
                            /\ teams[k].games_played =
                                    (IF row[2].text \in {<<"5">>, <<" ", "5">>}
                                     THEN 5 ELSE 0)
                            /\ teams[k].points =
                                    (IF row[7].text = <<"6">> THEN 6 ELSE 0)
                            /\ teams[k].wins = 3
                            /\ teams[k].losses = 2
                            /\ teams[k].ties = 0
                            /\ teams[k].overtime_losses = 0

C15_Witness ==
    /\ returned
    /\ Len(html[1].rows) = 4
    /\ html[1].rows[2] = StandingsRow(TeamA(<<"7">>), <<>>, <<"6">>, 8)
    /\ html[1].rows[3] = StandingsRow(TeamA(<<"a", "b">>), <<"5">>, <<"6">>, 8)
    /\ html[1].rows[4] = StandingsRow(TeamA(<<"7">>), <<"5">>, <<"1", ".", "5">>, 8)
    /\ Len(teams) = 2
    /\ teams[1].games_played = 0
    /\ teams[1].points = 6
    /\ teams[2].points = 0

\* a heading with the word Division stands before the table
Labelled(table) ==
    \E j \in 1..Len(table.prev) : \E w \in 1..Len(table.prev[j]) :
        table.prev[j][w] = "Division"

\* the tables of the page in document order
Tables == FindAllTables(html)

\* C16: a table without resolvable division label gives no record and no
\* exception; every table with a label gives one record for each of its
\* well-formed rows, under its label; and the records stand in the order
\* of their tables in the document, and of their rows within a table.
C16_UnlabelledTableSkipped ==
    returned =>
        /\ \A t \in 1..Len(Tables) :
            LET rows == FindAllTr(Tables[t])
            IN  \A i \in 1..Len(rows) :
                    Cardinality(RecordsOf(t, i)) =
                        (IF Labelled(Tables[t]) /\ i > 1 /\ rows[i] \in GoodRows
                         THEN 1 ELSE 0)
        /\ \A k \in 1..Len(teams) :
            /\ teams[k].from_table \in 1..Len(Tables)
            /\ teams[k].division = Tables[teams[k].from_table].prev[1]
        /\ \A j, k \in 1..Len(teams) :
            j < k =>
                \/ teams[j].from_table < teams[k].from_table
                \/ /\ teams[j].from_table = teams[k].from_table
                   /\ teams[j].from_row < teams[k].from_row

C16_Witness ==
    /\ returned
    /\ html = <<Table(<<"Standings">>, <<GoodRow(<<"7">>)>>),
               Table(Division1, <<GoodRow(<<"8">>)>>)>>
    /\ Len(teams) = 1
    /\ teams[1].team_id = Some(8)
    /\ teams[1].from_table = 2

\* C17: no two records of the result of get_all_teams carry the same team
\* id.
C17_UniqueTeamIds ==
    returned =>
        \A j, k \in 1..Len(teams) :
            j # k => teams[j].team_id # teams[k].team_id

\* ------------------------------------------------------------ schedule claims
\* the rows of table t of the page that are wide enough for a record
FullRows(t) ==
    {i \in 2..Len(html[t].rows) : Len(html[t].rows[i]) >= 12}

\* C18: from a page without table get_team_schedule returns the empty
\* sequence; from any other page it returns one record for each full row
\* of the first table, with the game id of that row, and nothing else.
C18_FirstTableOnly ==
    returned =>
        IF html = <<>> THEN games = <<>>
        ELSE /\ Len(games) = Cardinality(FullRows(1))
             /\ \A k \in 1..Len(games) :
                    /\ games[k].from_row \in FullRows(1)
                    /\ games[k].game_id.some
                    /\ html[1].rows[games[k].from_row][1].text =
                            <<Digits[games[k].game_id.val + 1]>>

C18_Witness ==
    /\ returned
    /\ html = <<>>
    /\ games = <<>>

\* C19: every record has the status "completed" when both goal counts are
\* non-null and "scheduled" otherwise; an empty score cell gives a null
\* goal count, so a row with an empty score cell is "scheduled".
C19_StatusFromScores ==
    returned =>
        /\ Len(games) = 1
        /\ \A k \in 1..Len(games) :
            LET row == html[1].rows[games[k].from_row]
            IN  /\ games[k].status \in {"completed", "scheduled"}
                /\ games[k].status = "completed" <=>
                        (games[k].home_goals.some /\ games[k].away_goals.some)
                /\ row[8].text = <<>> => ~games[k].away_goals.some
                /\ row[10].text = <<>> => ~games[k].home_goals.some
                /\ (row[8].text = <<>> \/ row[10].text = <<>>) =>
                        games[k].status = "scheduled"
                /\ (row[8].text = <<"0">> /\ row[10].text = <<"0">>) =>
                        games[k].status = "completed"

C19_Witness ==
    /\ returned
    /\ html[1].rows[2][8].text = <<"3">>
    /\ html[1].rows[2][10].text = <<>>
    /\ games[1].away_goals = Some(3)
    /\ games[1].home_goals = None
    /\ games[1].status = "scheduled"

\* the text reads YYYY-MM-DD with the given year
IsDateOfYear(text, year) ==
    /\ Len(text) = 10
    /\ text[5] = "-"
    /\ text[8] = "-"
    /\ \A j \in {1, 2, 3, 4, 6, 7, 9, 10} : IsDigit(text[j])
    /\ DigitsValue(SubSeq(text, 1, 4)) = year
    /\ DigitsValue(SubSeq(text, 6, 7)) \in 1..12
    /\ DigitsValue(SubSeq(text, 9, 10)) \in 1..31

\* the text reads HH:MM on the 24-hour clock
IsClock(text) ==
    /\ Len(text) = 5
    /\ text[3] = ":"
    /\ \A j \in {1, 2, 4, 5} : IsDigit(text[j])
    /\ DigitsValue(SubSeq(text, 1, 2)) < 24
    /\ DigitsValue(SubSeq(text, 4, 5)) < 60

Sent(kind) == Cardinality({k \in 1..Len(answers) : answers[k] = kind})

\* c runs a handler that scrapes and is past its early returns
Scraping(c) ==
    /\ handler[c].name \in Handlers
    /\ answers # <<>>
    /\ answers[1] = "progress"

\* the scrape of the handler c runs has raised: the constructor, or the
\* fetch of get_all_teams
ScrapeFailed(c) == handler[c].scraper = "none" \/ Raised(c)

\* C22: no exception of a scrape leaves process_player_name, cmd_myteam or
\* cmd_nextgame: when the handler has returned, it has sent exactly one
\* failure message if the scrape raised and none if it did not, and after
\* a failed scrape process_player_name has cleared the onboarding state.
C22_NoScraperErrorEscapes ==
    \A c \in callers :
        /\ handler[c].at # "escaped"
        /\ (Scraping(c) /\ handler[c].at # "returned") => Sent("error") = 0
        /\ (Scraping(c) /\ handler[c].at = "returned") =>
                /\ Sent("error") = (IF ScrapeFailed(c) THEN 1 ELSE 0)
                /\ ScrapeFailed(c) => answers = <<"progress", "error">>
                /\ (ScrapeFailed(c) /\ handler[c].name = "process_player_name") =>
                        /\ state # "waiting_for_player_name"
                        /\ state = NoState

C22_Witness ==
    /\ handler[1].name = "process_player_name"
    /\ handler[1].at = "returned"
    /\ result[1].kind = "ValueError"
    /\ answers = <<"progress", "error">>
    /\ state = NoState

\* C23: when /nextgame has answered an onboarded user with a team, it
\* has constructed a schedule scraper and that scraper has dispatched a
\* fetch of the schedule page, whose records the handler read before it
\* replied.
C23_NextGameControlFlow ==
    \A c \in callers :
        (handler[c].name = "cmd_nextgame" /\ handler[c].at = "returned"
            /\ Scraping(c)) =>
                /\ handler[c].scraper # "none"
                /\ handler[c].calls = 1
                /\ attempts[c] >= 1

\* C26: in waiting_for_player_name a message whose trimmed text has fewer
\* than 3 characters leaves the state as it is and starts no fetch; a
\* longer name starts exactly one get_all_teams call, the state stays
\* until that call has ended, and then it is waiting_for_team_selection
\* if and only if the call returned at least one team, and cleared when it
\* returned none or raised.
C26_NameStep ==
    \A c \in callers :
        handler[c].name = "process_player_name" =>
            IF Len(Strip(handler[c].text)) < 3
            THEN /\ handler[c].at = "returned"
                 /\ handler[c].calls = 0
                 /\ handler[c].scraper = "none"
                 /\ pc[c] = "idle"
                 /\ state = "waiting_for_player_name"
            ELSE IF handler[c].at # "returned"
            THEN /\ handler[c].calls <= 1
                 /\ state = "waiting_for_player_name"
            ELSE /\ handler[c].calls = 1
                 /\ state = "waiting_for_team_selection" <=>
                        (~Raised(c) /\ Len(teams) >= 1)
                 /\ state # "waiting_for_team_selection" => state = NoState

C26_Witness ==
    /\ handler[1].name = "process_player_name"
    /\ handler[1].at = "returned"
    /\ handler[1].text = <<" ", "J", "o", "e", " ">>
    /\ handler[1].calls = 1
    /\ result[1].kind = "html"
    /\ state = "waiting_for_team_selection"
    /\ data.player_name = <<"J", "o", "e">>
    /\ Len(data.teams) = 1

\* C25: a schedule row of at least 12 cells gives a record whatever its
\* game center cell (the last of 12 or 13 cells) holds, and the game id
\* of the record is the integer of the first anchor with a game_id
\* parameter that is an integer, else the integer the text of the cell
\* spells in digits, else null.
C25_GameIdPriority ==
    returned =>
        LET row == html[1].rows[2]
            center == row[Len(row)]
            linked == IF center.a = <<>> THEN None
                      ELSE IF center.a[1] = GameLink(<<"5">>) THEN Some(5)
                      ELSE IF Len(center.a) = 2 THEN Some(7)
                      ELSE None
        IN  /\ Len(games) = 1
            /\ games[1].game_id =
                    IF linked.some THEN linked
                    ELSE IF IsInteger(Strip(center.text)) THEN Some(42)
                    ELSE None

\* C21: get_all_teams and get_team_schedule raise only when their fetch
\* has raised; a page without table, a table without division heading, a
\* row with too few cells or without team id do not make them raise, and
\* a row whose parsing raises gives no record while the rows after it give
\* theirs.
C21_RaisesOnlyOnFetchFailure ==
    \A c \in callers :
        handler[c].name \in Extractors =>
            /\ handler[c].at = "raised" =>
                    /\ Raised(c)
                    /\ result[c].attempt >= 1
                    /\ ~returned
            /\ handler[c].at = "returned" =>
                    /\ result[c].kind = "html"
                    /\ returned
                    /\ Len(teams) =
                            (IF handler[c].name = "get_all_teams"
                                /\ html = StandingsPage THEN 1 ELSE 0)
                    /\ \A k \in 1..Len(teams) :
                            /\ teams[k].team_id = Some(8)
                            /\ teams[k].from_table = 2
                            /\ teams[k].from_row = 4
                    /\ Len(games) =
                            (IF handler[c].name = "get_team_schedule"
                                /\ html = SchedulePage THEN 1 ELSE 0)
                    /\ \A k \in 1..Len(games) :
                            /\ games[k].game_id = Some(5)
                            /\ games[k].from_row = 4

C21_Witness ==
    /\ handler[1].name = "get_team_schedule"
    /\ handler[1].at = "returned"
    /\ html = SchedulePage
    /\ ExtractGameIdRaises(html[1].rows[2])
    /\ Len(games) = 1
    /\ games[1].from_row = 4

\* the place of the nearest of the first `limit` nodes that names a
\* division, 0 when none of them does
Nearest(siblings, limit) ==
    LET at == {j \in 1..Len(siblings) :
                    /\ j <= limit
                    /\ \E w \in 1..Len(siblings[j]) : siblings[j][w] = "Division"}
    IN  IF at = {} THEN 0 ELSE CHOOSE j \in at : \A m \in at : j <= m

\* C24: the search for the division of a table ends, and its result is
\* the text of the nearest of the 10 nodes before the table that contains
\* "Division"; when none of them does, of the nearest of the 5 nodes
\* before the parent of the table; and when none of these does either, no
\* label, whatever stands farther away.
C24_BoundedNearestLabel ==
    returned =>
        LET own == Nearest(html[1].prev, 10)
            up == Nearest(html[1].parent_prev, 5)
        IN  IF own > 0
            THEN Len(teams) = 1 /\ teams[1].division = html[1].prev[own]
            ELSE IF up > 0
            THEN Len(teams) = 1 /\ teams[1].division = html[1].parent_prev[up]
            ELSE teams = <<>>

C24_Witness ==
    /\ returned
    /\ html[1].prev = Siblings("own", 11, {11})
    /\ html[1].parent_prev = Siblings("parent", 6, {6})
    /\ teams = <<>>

\* the last attempt of c was answered 429 with a Retry-After that is
\* present and is no integer
UnreadableRetryAfter(c) ==
    /\ Met(response[c]) = "429"
    /\ response[c].retry_after.present
    /\ ~PyInt(response[c].retry_after.text).ok

Begins(i) ==
    \E c \in callers :
        /\ uses[c] = i
        /\ \/ pc[c] = "idle" /\ pc'[c] # "idle"
           \/ pc[c] \in {"backoff", "cooldown"} /\ pc'[c] # pc[c]
           \/ scope[c] # "inside" /\ scope'[c] = "inside"

\* C28: an instance has no session from its construction to its first
\* fetch or scope entry and never more than one open session; a fetch
\* that finds the session open reuses it; close() with no session open
\* (a second close, or a close before any fetch) changes nothing; and a
\* fetch after close() runs on a fresh session.
C28_SessionLifecycle ==
    /\ [](\A i \in Instances :
            /\ live[i] <= 1
            /\ session[i] = "open" <=> live[i] = 1
            /\ opened[i] = 0 => session[i] = "None"
            /\ \A c \in callers :
                    (uses[c] = i /\ pc[c] \in {"rate_sleep", "inflight"}) =>
                        session[i] = "open")
    /\ [][\A i \in Instances :
            /\ opened'[i] # opened[i] =>
                    /\ Begins(i)
                    /\ session[i] = "None"
                    /\ session'[i] = "open"
                    /\ opened'[i] = opened[i] + 1
            /\ (session[i] = "None" /\ session'[i] = "open"
                    /\ opened[i] < max_sessions) =>
                    opened'[i] = opened[i] + 1
            /\ (session[i] = "None" /\ session'[i] = "None") =>
                    /\ live'[i] = live[i]
                    /\ opened'[i] = opened[i]]_vars

C28_Witness ==
    /\ opened["A"] = 2
    /\ live["A"] = 1
    /\ session["A"] = "open"
    /\ pc[1] = "inflight"
    /\ retries[1] = 0

\* team_idx is a button of the keyboard that has not been selected
Selectable(team_idx) ==
    /\ team_idx < Len(data.teams)
    /\ \A k \in 1..Len(data.selected_teams) : data.selected_teams[k] # team_idx

Pressed(p, team_idx) ==
    /\ p \in 1..Len(callbacks)
    /\ callbacks[p].query = "select_team"
    /\ callbacks[p].arg = team_idx

\* C27: a user can select more than one team in one onboarding: after the
\* buttons of two different teams have been pressed, the user has one
\* player-team association for each of them, exactly one of the two
\* primary (the first), and both indices are in selected_teams.
C27_TwoTeamsSelected ==
    \A p, q \in 1..Len(callbacks) :
        (/\ p < q
         /\ Pressed(p, 0)
         /\ Pressed(q, 1)
         /\ Len(data.teams) = 2
         /\ \A k \in 1..q : callbacks[k].query = "select_team") =>
            /\ Len(db.player_teams) = 2
            /\ db.player_teams[1].is_primary
            /\ ~db.player_teams[2].is_primary
            /\ data.selected_teams = <<0, 1>>

====
